---- MODULE Spec2Model ----
(***************************************************************************)
(* Back-in-stock notification tracker: the subscribers pipeline of         *)
(* src/app/api/subscribers/route.js (GET), with the pure helpers it uses.  *)
(*                                                                         *)
(* JavaScript values are records [k, s, n]: k is the type tag, s the text  *)
(* of a string, n the value of a number.  Strings are TLA+ strings; the    *)
(* eight curly quotation marks, which a TLA+ string cannot hold, are       *)
(* written with the stand-in glyphs U2018 .. U201F below.                  *)
(***************************************************************************)
EXTENDS Integers, Sequences, FiniteSets, TLC

VARIABLES
    phase,        \* "setup" while the inputs are built, "done" after the call
    idParts,      \* normalizeProductId: the pieces of the identifier text built so far
    idIn,         \* normalizeProductId: the argument of the call
    idOther,      \* a second identifier, compared with the first after normalizing
    idOut,        \* normalizeProductId(idIn)
    idSame,       \* normalizeProductId(idIn) === normalizeProductId(idOther)
    textParts,    \* isBisEmailSubject: the pieces of the message text built so far
    subject,      \* isBisEmailSubject: the subject passed
    preview,      \* isBisEmailSubject: the preview text passed
    verdict,      \* isBisEmailSubject(subject, preview)
    profiles,     \* event store: the profiles of the list, as listed
    signupEvents, \* event store: the "Back In Stock Signup" events, as listed
    alertEvents,  \* event store: the "Back In Stock Alert" events, as listed
    emailEvents,  \* event store: the "Received Email" events, as listed
    metrics,      \* event store: the metrics it lists
    backlog,      \* event store: how many newer events each listing holds before those
    failing,      \* the endpoints that answer with a non-success status
    unreachable,  \* the endpoints a request to which fails in transport (fetch throws)
    env,          \* process.env: which of the credentials are set
    run,          \* GET: the maps it built (NoRun before the run)
    response,     \* GET: its response (NoResponse before the run)
    webhook,      \* POST /api/inventory-webhook: its last response, and its log
    flight,       \* GET taken step by step: its position, the calls in flight, its locals
    dash          \* the dashboard: its state, and the refreshes in flight

storeVars ==
    <<profiles, signupEvents, alertEvents, emailEvents, metrics, backlog, failing, unreachable,
      env, webhook>>
pipelineVars == <<storeVars, run, response>>
normalizeVars == <<idParts, idIn, idOther, idOut, idSame>>
classifierVars == <<textParts, subject, preview, verdict>>
stepVars == <<flight, dash>>
vars == <<phase, normalizeVars, classifierVars, pipelineVars, stepVars>>

-----------------------------------------------------------------------------
(* JavaScript values *)

NULL == [k |-> "null", s |-> "", n |-> 0]
Str(x) == [k |-> "string", s |-> x, n |-> 0]
Num(x) == [k |-> "number", s |-> "", n |-> x]

\* the value of a variable that no call has written yet
NONE == [k |-> "none", s |-> "", n |-> 0]

\* ToBoolean: null, "" and 0 are falsy
Truthy(v) ==
    CASE v.k = "null" -> FALSE
      [] v.k = "string" -> v.s # ""
      [] v.k = "number" -> v.n # 0
      [] OTHER -> FALSE

\* a || b
OrElse(a, b) == IF Truthy(a) THEN a ELSE b

Digits == <<"0", "1", "2", "3", "4", "5", "6", "7", "8", "9">>

\* Number.prototype.toString of a non-negative integer
RECURSIVE Decimal(_)
Decimal(n) ==
    IF n < 10 THEN Digits[n + 1]
    ELSE Decimal(n \div 10) \o Digits[(n % 10) + 1]

\* String(v)
JsString(v) ==
    CASE v.k = "string" -> v.s
      [] v.k = "number" -> Decimal(v.n)
      [] OTHER -> "null"

\* String.prototype.includes
Includes(str, sub) ==
    \E i \in 1..(Len(str) - Len(sub) + 1) : SubSeq(str, i, i + Len(sub) - 1) = sub

\* String.prototype.split with a one-character separator: the pieces, in order
RECURSIVE SplitFrom(_, _, _, _)
SplitFrom(str, sep, i, piece) ==
    IF i > Len(str) THEN <<piece>>
    ELSE IF SubSeq(str, i, i) = sep
         THEN <<piece>> \o SplitFrom(str, sep, i + 1, "")
         ELSE SplitFrom(str, sep, i + 1, piece \o SubSeq(str, i, i))

Split(str, sep) == SplitFrom(str, sep, 1, "")

\* Array.prototype.pop of a non-empty array: its last element
Pop(arr) == arr[Len(arr)]

-----------------------------------------------------------------------------
(* normalizeProductId *)

\* normalizeProductId without the global-identifier branch
normalizeProductId_NoGid(id) ==
    IF ~Truthy(id) THEN NULL ELSE Str(JsString(id))

normalizeProductId(id) ==
    IF ~Truthy(id) THEN NULL
    ELSE LET str == JsString(id)
         IN  IF Includes(str, "gid://") THEN Str(Pop(Split(str, "/")))
             ELSE Str(str)

\* a === b of two values that are null or strings
StrictEq(a, b) == a.k = b.k /\ a.s = b.s /\ a.n = b.n

\* the comparison of two product identifiers made by GET
SameProduct(a, b) == StrictEq(normalizeProductId(a), normalizeProductId(b))

-----------------------------------------------------------------------------
(* normalizeQuotes and isBisEmailSubject *)

\* stand-in glyphs for the curly quotation marks
U2018 == "<"
U2019 == ">"
U201A == "_"
U201B == "~"
U201C == "{"
U201D == "}"
U201E == "["
U201F == "]"

SingleCurly == {U2018, U2019, U201A, U201B}
DoubleCurly == {U201C, U201D, U201E, U201F}

UpperCase == "ABCDEFGHIJKLMNOPQRSTUVWXYZ"
LowerCase == "abcdefghijklmnopqrstuvwxyz"

\* the lower-case letter of each upper-case letter
LowerOf ==
    [c \in {SubSeq(UpperCase, i, i) : i \in 1..Len(UpperCase)} |->
        LET i == CHOOSE j \in 1..Len(UpperCase) : SubSeq(UpperCase, j, j) = c
        IN  SubSeq(LowerCase, i, i)]

LowerChar(c) == IF c \in DOMAIN LowerOf THEN LowerOf[c] ELSE c

\* String.prototype.toLowerCase
RECURSIVE toLowerCase(_)
toLowerCase(str) ==
    IF str = "" THEN ""
    ELSE LowerChar(SubSeq(str, 1, 1)) \o toLowerCase(SubSeq(str, 2, Len(str)))

\* str.replace(/[class]/g, by)
RECURSIVE ReplaceClass(_, _, _)
ReplaceClass(str, class, by) ==
    IF str = "" THEN ""
    ELSE (IF SubSeq(str, 1, 1) \in class THEN by ELSE SubSeq(str, 1, 1))
         \o ReplaceClass(SubSeq(str, 2, Len(str)), class, by)

\* normalizeQuotes knowing only the two common curly marks
normalizeQuotes_CommonOnly(str) ==
    ReplaceClass(ReplaceClass(str, {U2019}, "'"), {U201C, U201D}, "\"")

normalizeQuotes(str) ==
    ReplaceClass(ReplaceClass(str, SingleCurly, "'"), DoubleCurly, "\"")

\* isBisEmailSubject testing the preview against the subject's phrases too
isBisEmailSubject_OneList(subj, prev) ==
    LET s == normalizeQuotes(toLowerCase(OrElse(subj, Str("")).s))
        p == normalizeQuotes(toLowerCase(OrElse(prev, Str("")).s))
    IN  \E t \in {s, p} :
            \/ Includes(t, "back in stock")
            \/ Includes(t, "it's here")
            \/ Includes(t, "ready to order")
            \/ Includes(t, "now available")
            \/ Includes(t, "in stock")
            \/ Includes(t, "restock")
            \/ Includes(t, "pre-order")
            \/ Includes(t, "preorder")

isBisEmailSubject(subj, prev) ==
    LET s == normalizeQuotes(toLowerCase(OrElse(subj, Str("")).s))
        p == normalizeQuotes(toLowerCase(OrElse(prev, Str("")).s))
    IN  \/ Includes(s, "back in stock")
        \/ Includes(s, "it's here")
        \/ Includes(s, "ready to order")
        \/ Includes(s, "now available")
        \/ Includes(s, "in stock")
        \/ Includes(s, "restock")
        \/ Includes(s, "pre-order")
        \/ Includes(s, "preorder")
        \/ Includes(p, "back in stock")
        \/ Includes(p, "now available")
        \/ Includes(p, "in stock")
        \/ Includes(p, "restock")

-----------------------------------------------------------------------------
(* Dates.  A time value is [nan, t]: t counts days from 1970-01-01 (the     *)
(* code's milliseconds, scaled), nan marks an Invalid Date.                  *)

TimeValue(t) == [nan |-> FALSE, t |-> t]
NaN == [nan |-> TRUE, t |-> 0]

\* the ISO text of day d (1..9) of January 2024
Iso(d) == "2024-01-0" \o Digits[d + 1]

\* Date.parse of a string: the texts Iso(d) are dates, 19722 + d days after
\* 1970-01-01; any other text of the model is not a date
DateParse(str) ==
    IF /\ Len(str) = 10
       /\ SubSeq(str, 1, 9) = "2024-01-0"
       /\ \E d \in 1..9 : SubSeq(str, 10, 10) = Digits[d + 1]
    THEN TimeValue(19722 + (CHOOSE d \in 1..9 : SubSeq(str, 10, 10) = Digits[d + 1]))
    ELSE NaN

\* new Date(v).getTime(): null is the epoch, a number is itself
NewDate(v) ==
    CASE v.k = "null" -> TimeValue(0)
      [] v.k = "number" -> TimeValue(v.n)
      [] v.k = "string" -> DateParse(v.s)
      [] OTHER -> NaN

\* the comparison with >= in the place of >
DateAfter_OrEqual(a, b) ==
    LET x == NewDate(a)
        y == NewDate(b)
    IN  ~x.nan /\ ~y.nan /\ x.t >= y.t

\* new Date(a) > new Date(b): false when either is an Invalid Date
DateAfter(a, b) ==
    LET x == NewDate(a)
        y == NewDate(b)
    IN  ~x.nan /\ ~y.nan /\ x.t > y.t

-----------------------------------------------------------------------------
(* A JavaScript Map is the sequence of its entries [key, val], in insertion *)
(* order; keys are profile ids (strings).                                   *)

EmptyMap == <<>>

MapHas(m, key) == \E i \in 1..Len(m) : m[i].key = key

\* m.get(key) || []
MapGetOrEmpty(m, key) ==
    IF MapHas(m, key)
    THEN m[CHOOSE i \in 1..Len(m) : m[i].key = key].val
    ELSE <<>>

\* if (!m.has(key)) m.set(key, []); m.get(key).push(...items)
MapPush(m, key, items) ==
    IF MapHas(m, key)
    THEN [i \in 1..Len(m) |->
             IF m[i].key = key THEN [m[i] EXCEPT !.val = @ \o items] ELSE m[i]]
    ELSE Append(m, [key |-> key, val |-> items])

-----------------------------------------------------------------------------
(* The event store's answers.  A response is [ok, data]; an event is        *)
(* [profile, props, datetime] with props the event_properties the code      *)
(* reads.                                                                   *)

Response(ok, data) == [ok |-> ok, data |-> data]

\* the signup built from one event by getSignupEvents (productHandle and
\* productImage, which GET never reads, are left out)
SignupOf(event) ==
    [productId |-> OrElse(event.props.ProductID, NULL),
     variantId |-> OrElse(event.props.VariantID, NULL),
     productTitle |-> OrElse(event.props.ProductTitle, NULL),
     productUrl |-> OrElse(event.props.ProductURL, NULL),
     signupDate |-> OrElse(event.props.SignupDate, OrElse(event.datetime, NULL))]

\* the alert built from one event by getBisAlertEvents
AlertOf(event) ==
    [productId |-> OrElse(event.props.ProductID, NULL),
     date |-> OrElse(event.datetime, NULL)]

\* the alert built from one matching message by checkReceivedBisEmails
EmailAlertOf(event) ==
    [productId |-> NULL, date |-> OrElse(event.datetime, NULL)]

\* the loop keeping only the latest signup listed for a profile
RECURSIVE GroupSignups_KeepLast(_, _, _)
GroupSignups_KeepLast(events, i, byProfile) ==
    IF i > Len(events) THEN byProfile
    ELSE IF ~Truthy(events[i].profile)
         THEN GroupSignups_KeepLast(events, i + 1, byProfile)
         ELSE GroupSignups_KeepLast(events, i + 1,
                  IF MapHas(byProfile, events[i].profile.s) THEN byProfile
                  ELSE MapPush(byProfile, events[i].profile.s, <<SignupOf(events[i])>>))

\* the loop of getSignupEvents over the events, from the i-th on
RECURSIVE GroupSignups(_, _, _)
GroupSignups(events, i, byProfile) ==
    IF i > Len(events) THEN byProfile
    ELSE IF ~Truthy(events[i].profile)
         THEN GroupSignups(events, i + 1, byProfile)
         ELSE GroupSignups(events, i + 1,
                  MapPush(byProfile, events[i].profile.s, <<SignupOf(events[i])>>))

\* the loop of getBisAlertEvents
RECURSIVE GroupAlerts(_, _, _)
GroupAlerts(events, i, byProfile) ==
    IF i > Len(events) THEN byProfile
    ELSE IF ~Truthy(events[i].profile)
         THEN GroupAlerts(events, i + 1, byProfile)
         ELSE GroupAlerts(events, i + 1,
                  MapPush(byProfile, events[i].profile.s, <<AlertOf(events[i])>>))

\* metricsData.data.find(m => m.attributes?.name?.toLowerCase() === name)?.id || null
FindMetric(metricsData, lowerName) ==
    LET hits == {i \in 1..Len(metricsData) : toLowerCase(metricsData[i].name) = lowerName}
    IN  IF hits = {} THEN NULL
        ELSE Str(metricsData[CHOOSE i \in hits : \A j \in hits : i <= j].id)

\* the metrics the store lists once events of all three kinds were tracked
Metrics ==
    <<[id |-> "M1", name |-> "Back In Stock Signup"],
      [id |-> "M2", name |-> "Back in Stock Alert"],
      [id |-> "M3", name |-> "Received Email"]>>

\* GET /metrics/
MetricsResponse == Response("metrics" \notin failing, metrics)

\* the profile listing with the status of the answer ignored
ProfilesResponse_AlwaysOk == Response(TRUE, profiles)

\* GET /lists/{listId}/profiles/
ProfilesResponse == Response("profiles" \notin failing, profiles)

\* page[size] of the requests for the events of a metric, and of the requests
\* for the events of a metric and a profile: the code's 100 and 50, counted
\* in tens of events so that a listing longer than a page stays small
EventsPageSize == 10
EmailsPageSize == 5

\* the newer events a listing holds before the events of the model: events
\* of the profile asked for, or of a subscriber that is not on the list, about
\* a product of their own and with a subject that is not a restock notice
Newer(profileId) ==
    [profile |-> Str(profileId),
     props |-> [ProductID |-> Str("909"), VariantID |-> NULL, ProductTitle |-> Str("Mug"),
                ProductURL |-> NULL, SignupDate |-> NULL,
                Subject |-> Str("Newsletter"), PreviewText |-> NULL],
     datetime |-> Str(Iso(9))]

\* the first page of a listing sorted newest first: the request names a page
\* size, and the links of the answer to further pages are not followed
FirstPage(events, profileId, size) ==
    LET held == [n \in 1..backlog |-> Newer(profileId)] \o events
    IN  IF Len(held) <= size THEN held ELSE SubSeq(held, 1, size)

\* GET /events/?filter=equals(metric_id,"...")
EventsResponse(metricId) ==
    CASE metricId = "M1" ->
             Response("signups" \notin failing, FirstPage(signupEvents, "p9", EventsPageSize))
      [] metricId = "M2" ->
             Response("alerts" \notin failing, FirstPage(alertEvents, "p9", EventsPageSize))
      [] OTHER -> Response(TRUE, <<>>)

\* GET /events/?filter=and(equals(metric_id,"..."),equals(profile_id,"..."))
EmailsResponse(metricId, profileId) ==
    IF metricId = "M3"
    THEN Response("emails" \notin failing,
                  FirstPage(SelectSeq(emailEvents, LAMBDA e : e.profile = Str(profileId)),
                            profileId, EmailsPageSize))
    ELSE Response(TRUE, <<>>)

\* the endpoint that lists the events of a metric
EventsEndpoint(metricId) ==
    CASE metricId = "M1" -> "signups"
      [] metricId = "M2" -> "alerts"
      [] metricId = "M3" -> "emails"
      [] OTHER -> "events"

\* klaviyoHeaders with the test of the key left out
klaviyoHeadersThrows_Never == FALSE

\* klaviyoHeaders: throws 'KLAVIYO_PRIVATE_API_KEY not set' without the key
klaviyoHeadersThrows == ~env.KLAVIYO_PRIVATE_API_KEY

\* a request of the run: the endpoint asked and the profile it is about
Req(endpoint) == [endpoint |-> endpoint, profile |-> ""]
ReqFor(endpoint, profileId) == [endpoint |-> endpoint, profile |-> profileId]

\* getSignupEvents with the events of the first metric listed taken when no
\* metric has the name
getSignupEvents_AnyMetric ==
    LET metricsRes == MetricsResponse
    IN  IF "metrics" \in unreachable \/ ~metricsRes.ok \/ Len(metricsRes.data) = 0
        THEN EmptyMap
        ELSE LET named == FindMetric(metricsRes.data, "back in stock signup")
                 signupMetric == IF named = NULL THEN Str("M1") ELSE named
                 eventsRes == EventsResponse(signupMetric.s)
             IN  IF EventsEndpoint(signupMetric.s) \in unreachable \/ ~eventsRes.ok
                 THEN EmptyMap
                 ELSE GroupSignups(eventsRes.data, 1, EmptyMap)

\* getSignupEvents with the events read whatever became of their request
getSignupEvents_AnyStatus ==
    LET metricsRes == MetricsResponse
        signupMetric == FindMetric(metricsRes.data, "back in stock signup")
    IN  IF "metrics" \in unreachable \/ ~metricsRes.ok \/ signupMetric = NULL THEN EmptyMap
        ELSE GroupSignups(EventsResponse(signupMetric.s).data, 1, EmptyMap)

\* getSignupEvents: a fetch that throws is caught, and gives an empty Map too
getSignupEvents ==
    LET metricsRes == MetricsResponse
    IN  IF "metrics" \in unreachable THEN EmptyMap
        ELSE IF ~metricsRes.ok THEN EmptyMap
        ELSE LET signupMetric == FindMetric(metricsRes.data, "back in stock signup")
             IN  IF signupMetric = NULL THEN EmptyMap
                 ELSE LET eventsRes == EventsResponse(signupMetric.s)
                      IN  IF EventsEndpoint(signupMetric.s) \in unreachable THEN EmptyMap
                          ELSE IF ~eventsRes.ok THEN EmptyMap
                          ELSE GroupSignups(eventsRes.data, 1, EmptyMap)

\* the requests getSignupEvents issues
getSignupEventsRequests ==
    {Req("metrics")}
    \cup (IF \/ "metrics" \in unreachable
              \/ ~MetricsResponse.ok
              \/ FindMetric(MetricsResponse.data, "back in stock signup") = NULL
          THEN {}
          ELSE {Req(EventsEndpoint(FindMetric(MetricsResponse.data,
                                              "back in stock signup").s))})

\* getMetricIds has no try block: a fetch that throws is thrown out of it
getMetricIdsThrows == "metrics" \in unreachable

getMetricIdsRequests == {Req("metrics")}

\* getMetricIds: {} when the listing fails
getMetricIds ==
    LET metricsRes == MetricsResponse
    IN  IF ~metricsRes.ok THEN [bisAlert |-> NULL, receivedEmail |-> NULL]
        ELSE [bisAlert |-> FindMetric(metricsRes.data, toLowerCase("Back In Stock Alert")),
              receivedEmail |-> FindMetric(metricsRes.data, toLowerCase("Received Email"))]

getBisAlertEventsRequests(metricId) ==
    IF ~Truthy(metricId) THEN {} ELSE {Req(EventsEndpoint(metricId.s))}

getBisAlertEvents(metricId) ==
    IF ~Truthy(metricId) THEN EmptyMap
    ELSE LET eventsRes == EventsResponse(metricId.s)
         IN  IF EventsEndpoint(metricId.s) \in unreachable THEN EmptyMap
             ELSE IF ~eventsRes.ok THEN EmptyMap
             ELSE GroupAlerts(eventsRes.data, 1, EmptyMap)

\* the loop of one profile's task of checkReceivedBisEmails
RECURSIVE CollectEmailAlerts(_, _, _, _)
CollectEmailAlerts(events, i, profileId, byProfile) ==
    IF i > Len(events) THEN byProfile
    ELSE LET subj == OrElse(events[i].props.Subject, Str(""))
             prev == OrElse(events[i].props.PreviewText, Str(""))
         IN  IF isBisEmailSubject(subj, prev)
             THEN CollectEmailAlerts(events, i + 1, profileId,
                      MapPush(byProfile, profileId, <<EmailAlertOf(events[i])>>))
             ELSE CollectEmailAlerts(events, i + 1, profileId, byProfile)

\* the tasks of checkReceivedBisEmails, one per profile id, each adding to
\* byProfile when its answer arrives; arrival is the order in which they arrive
RECURSIVE RunEmailTasks(_, _, _, _)
RunEmailTasks(metricId, arrival, i, byProfile) ==
    IF i > Len(arrival) THEN byProfile
    ELSE LET res == EmailsResponse(metricId, arrival[i])
         IN  RunEmailTasks(metricId, arrival, i + 1,
                 IF EventsEndpoint(metricId) \in unreachable \/ ~res.ok THEN byProfile
                 ELSE CollectEmailAlerts(res.data, 1, arrival[i], byProfile))

checkReceivedBisEmailsRequests(metricId, profileIds) ==
    IF ~Truthy(metricId) \/ Len(profileIds) = 0 THEN {}
    ELSE {ReqFor(EventsEndpoint(metricId.s), profileIds[i]) : i \in 1..Len(profileIds)}

checkReceivedBisEmails(metricId, profileIds, arrival) ==
    IF ~Truthy(metricId) \/ Len(profileIds) = 0 THEN EmptyMap
    ELSE RunEmailTasks(metricId.s, arrival, 1, EmptyMap)

\* the two loops of GET that merge both alert sources
RECURSIVE MergeInto(_, _, _)
MergeInto(source, i, target) ==
    IF i > Len(source) THEN target
    ELSE MergeInto(source, i + 1, MapPush(target, source[i].key, source[i].val))

\* the merge with the second loop setting the list in the place of adding to it
RECURSIVE SetInto(_, _, _)
SetInto(source, i, target) ==
    IF i > Len(source) THEN target
    ELSE SetInto(source, i + 1,
             IF MapHas(target, source[i].key)
             THEN [k \in 1..Len(target) |->
                      IF target[k].key = source[i].key
                      THEN [target[k] EXCEPT !.val = source[i].val] ELSE target[k]]
             ELSE Append(target, source[i]))

\* the merge with only the entry the message check wrote first taken from it
MergeAlerts_FirstEntry(bisAlertsByProfile, emailAlertsByProfile) ==
    MergeInto(IF Len(emailAlertsByProfile) > 1 THEN SubSeq(emailAlertsByProfile, 1, 1)
              ELSE emailAlertsByProfile,
              1, MergeInto(bisAlertsByProfile, 1, EmptyMap))

MergeAlerts_EmailsReplace(bisAlertsByProfile, emailAlertsByProfile) ==
    SetInto(emailAlertsByProfile, 1, MergeInto(bisAlertsByProfile, 1, EmptyMap))

MergeAlerts(bisAlertsByProfile, emailAlertsByProfile) ==
    MergeInto(emailAlertsByProfile, 1, MergeInto(bisAlertsByProfile, 1, EmptyMap))

-----------------------------------------------------------------------------
(* The commerce system: its records are the fixed ones below.  A request to *)
(* one of its endpoints ("customers", "products", "orders") gets no data    *)
(* when the endpoint answers with a non-success status or is unreachable.   *)

ShopCustomers == <<[email |-> "ann@example.com", id |-> Num(9001)]>>

ShopProducts ==
    <<[id |-> "101",
       variants |-> <<[id |-> Num(11), inventory_quantity |-> Num(2), sku |-> Str("SKU-11")],
                      [id |-> Num(12), inventory_quantity |-> Num(3), sku |-> Str("SKU-12")]>>],
      [id |-> "303",
       variants |-> <<[id |-> Num(31), inventory_quantity |-> NULL, sku |-> Str("")],
                      [id |-> Num(32), inventory_quantity |-> Num(4), sku |-> Str("SKU-32")]>>],
      [id |-> "404",
       variants |-> <<[id |-> Num(41), inventory_quantity |-> Num(1), sku |-> Str("SKU-41")],
                      [id |-> Num(42), inventory_quantity |-> Num(0), sku |-> NULL]>>]>>

ShopOrders ==
    <<[email |-> "ann@example.com", created_at |-> Str(Iso(2)),
       line_items |-> <<[product_id |-> Num(101)]>>],
      [email |-> "ann@example.com", created_at |-> Str(Iso(1)),
       line_items |-> <<[product_id |-> Num(404)], [product_id |-> Num(202)]>>],
      [email |-> "zoe@example.com", created_at |-> Str(Iso(3)),
       line_items |-> <<[product_id |-> Num(202)]>>]>>

\* the result of a lookup: a value, or an exception thrown out of it
Returned(value) == [threw |-> FALSE, value |-> value]
Threw == [threw |-> TRUE, value |-> NULL]

\* id.includes('gid://') ? id.split('/').pop() : id, on a string
NumericId(id) ==
    IF Includes(id.s, "gid://") THEN Str(Pop(Split(id.s, "/"))) ELSE id

\* the lookup gets no data: !res.ok, or fetch throws inside the try block
NoData(endpoint) == endpoint \in failing \cup unreachable

getShopifyCustomerId(email) ==
    IF ~env.SHOPIFY_STORE_DOMAIN \/ ~env.SHOPIFY_ADMIN_TOKEN \/ ~Truthy(email) THEN NULL
    ELSE IF NoData("customers") THEN NULL
    ELSE LET hits == SelectSeq(ShopCustomers, LAMBDA c : c.email = email.s)
         IN  IF Len(hits) = 0 THEN NULL ELSE OrElse(hits[1].id, NULL)

getShopifyCustomerIdRequests(email) ==
    IF ~env.SHOPIFY_STORE_DOMAIN \/ ~env.SHOPIFY_ADMIN_TOKEN \/ ~Truthy(email) THEN {}
    ELSE {"customers"}

RECURSIVE SumInventory(_, _)
SumInventory(variants, i) ==
    IF i > Len(variants) THEN 0
    ELSE SumInventory(variants, i + 1)
         + (IF Truthy(variants[i].inventory_quantity) THEN variants[i].inventory_quantity.n ELSE 0)

\* the SKU with the variant of the signup ignored
PickSku_First(variants, numericVariantId) ==
    IF Len(variants) > 0 THEN OrElse(variants[1].sku, NULL) ELSE NULL

\* matchingVariant?.sku || variants[0]?.sku || null, or variants[0]?.sku || null
PickSku(variants, numericVariantId) ==
    LET first == IF Len(variants) > 0 THEN OrElse(variants[1].sku, NULL) ELSE NULL
        matching == SelectSeq(variants,
                        LAMBDA v : JsString(v.id) = JsString(numericVariantId))
    IN  IF Truthy(numericVariantId) /\ Len(matching) > 0
        THEN OrElse(matching[1].sku, first)
        ELSE first

\* getProductData: productId.includes is called before the try block, so a
\* product or variant identifier that is not a string throws out of it
getProductData(productId, variantId) ==
    IF ~env.SHOPIFY_STORE_DOMAIN \/ ~env.SHOPIFY_ADMIN_TOKEN \/ ~Truthy(productId)
    THEN Returned([inventory |-> NULL, sku |-> NULL])
    ELSE IF productId.k # "string" \/ (Truthy(variantId) /\ variantId.k # "string")
    THEN Threw
    ELSE IF NoData("products") THEN Returned([inventory |-> NULL, sku |-> NULL])
    ELSE LET numericId == NumericId(productId)
             numericVariantId == IF Truthy(variantId) THEN NumericId(variantId) ELSE variantId
             found == SelectSeq(ShopProducts, LAMBDA p : p.id = numericId.s)
         IN  IF Len(found) = 0 THEN Returned([inventory |-> NULL, sku |-> NULL])
             ELSE LET variants == found[1].variants
                  IN  Returned([inventory |-> Num(SumInventory(variants, 1)),
                                sku |-> PickSku(variants, numericVariantId)])

getProductDataRequests(productId, variantId) ==
    IF ~env.SHOPIFY_STORE_DOMAIN \/ ~env.SHOPIFY_ADMIN_TOKEN \/ ~Truthy(productId) THEN {}
    ELSE IF productId.k # "string" \/ (Truthy(variantId) /\ variantId.k # "string") THEN {}
    ELSE {"products"}

checkIfOrderedRequests(email, productId) ==
    IF \/ ~env.SHOPIFY_STORE_DOMAIN \/ ~env.SHOPIFY_ADMIN_TOKEN
       \/ ~Truthy(email) \/ ~Truthy(productId)
    THEN {}
    ELSE IF productId.k # "string" THEN {}
    ELSE {"orders"}

\* checkIfOrdered: productId.includes is called before the try block
checkIfOrdered(email, productId, signupDate) ==
    IF \/ ~env.SHOPIFY_STORE_DOMAIN \/ ~env.SHOPIFY_ADMIN_TOKEN
       \/ ~Truthy(email) \/ ~Truthy(productId)
    THEN Returned(FALSE)
    ELSE IF productId.k # "string" THEN Threw
    ELSE IF NoData("orders") THEN Returned(FALSE)
    ELSE LET numericProductId == NumericId(productId)
             signupTime == IF Truthy(signupDate) THEN NewDate(signupDate) ELSE TimeValue(0)
             orders == SelectSeq(ShopOrders, LAMBDA o : o.email = email.s)
             Before(o) == LET orderTime == NewDate(o.created_at)
                          IN  ~orderTime.nan /\ ~signupTime.nan /\ orderTime.t < signupTime.t
         IN  Returned(\E i \in 1..Len(orders) :
                 /\ ~Before(orders[i])
                 /\ \E j \in 1..Len(orders[i].line_items) :
                        JsString(orders[i].line_items[j].product_id) = JsString(numericProductId))

-----------------------------------------------------------------------------
(* GET: correlation of signups with alerts, the records, their order        *)

\* the decision with the no-productId shortcut left out
AlertSent_ProductOnly(alerts, signup) ==
    \E i \in 1..Len(alerts) :
        /\ DateAfter(alerts[i].date, signup.signupDate)
        /\ SameProduct(alerts[i].productId, signup.productId)

\* alerts.some(a => ...): was an alert sent for this signup
AlertSent(alerts, signup) ==
    \E i \in 1..Len(alerts) :
        /\ DateAfter(alerts[i].date, signup.signupDate)
        /\ \/ ~Truthy(alerts[i].productId)
           \/ SameProduct(alerts[i].productId, signup.productId)

\* [first_name, last_name].filter(Boolean).join(' ')
NameOf(profile) ==
    LET first == profile.first_name
        last == profile.last_name
    IN  IF Truthy(first) /\ Truthy(last) THEN Str(JsString(first) \o " " \o JsString(last))
        ELSE IF Truthy(first) THEN Str(JsString(first))
        ELSE IF Truthy(last) THEN Str(JsString(last))
        ELSE Str("")

\* the record pushed for one signup of a profile (without _alertDebug, which
\* repeats the alerts and the comparisons made for alertSent)
SignupRecord(profile, signup, alerts, shopifyCustomerId) ==
    [id |-> profile.id \o "-" \o JsString(signup.productId) \o "-" \o JsString(signup.signupDate),
     profileId |-> profile.id,
     email |-> OrElse(profile.email, Str("N/A")),
     name |-> NameOf(profile),
     productId |-> signup.productId,
     productTitle |-> signup.productTitle,
     productUrl |-> signup.productUrl,
     variantId |-> signup.variantId,
     signupDate |-> signup.signupDate,
     alertSent |-> AlertSent(alerts, signup),
     ordered |-> checkIfOrdered(OrElse(profile.email, Str("N/A")),
                                signup.productId, signup.signupDate).value,
     inventory |-> getProductData(signup.productId, signup.variantId).value.inventory,
     sku |-> getProductData(signup.productId, signup.variantId).value.sku,
     shopifyCustomerId |-> shopifyCustomerId]

\* the record pushed for a profile without signups
FallbackRecord(profile, shopifyCustomerId) ==
    [id |-> profile.id,
     profileId |-> profile.id,
     email |-> OrElse(profile.email, Str("N/A")),
     name |-> NameOf(profile),
     productId |-> NULL,
     productTitle |-> NULL,
     productUrl |-> NULL,
     variantId |-> NULL,
     signupDate |-> OrElse(profile.created, NULL),
     alertSent |-> FALSE,
     ordered |-> FALSE,
     inventory |-> NULL,
     sku |-> NULL,
     shopifyCustomerId |-> shopifyCustomerId]

\* the records of one profile with every signup judged by the first one
RecordsOf_FirstDecides(profile, signups, alerts) ==
    LET shopifyCustomerId == getShopifyCustomerId(OrElse(profile.email, Str("N/A")))
    IN  IF Len(signups) > 0
        THEN [i \in 1..Len(signups) |->
                 [SignupRecord(profile, signups[i], alerts, shopifyCustomerId)
                      EXCEPT !.alertSent = AlertSent(alerts, signups[1])]]
        ELSE <<FallbackRecord(profile, shopifyCustomerId)>>

\* the records of one profile with the fallback judged against its alerts
RecordsOf_FallbackJudged(profile, signups, alerts) ==
    LET shopifyCustomerId == getShopifyCustomerId(OrElse(profile.email, Str("N/A")))
    IN  IF Len(signups) > 0
        THEN [i \in 1..Len(signups) |->
                 SignupRecord(profile, signups[i], alerts, shopifyCustomerId)]
        ELSE <<[FallbackRecord(profile, shopifyCustomerId)
                    EXCEPT !.alertSent = Len(alerts) > 0]>>

\* one turn of the loop over the profiles: the records it pushes
RecordsOf(profile, signups, alerts) ==
    LET shopifyCustomerId == getShopifyCustomerId(OrElse(profile.email, Str("N/A")))
    IN  IF Len(signups) > 0
        THEN [i \in 1..Len(signups) |->
                 SignupRecord(profile, signups[i], alerts, shopifyCustomerId)]
        ELSE <<FallbackRecord(profile, shopifyCustomerId)>>

\* does a lookup made for this profile's signups throw
LookupThrows(profile, signups) ==
    \E i \in 1..Len(signups) :
        \/ getProductData(signups[i].productId, signups[i].variantId).threw
        \/ checkIfOrdered(OrElse(profile.email, Str("N/A")),
                          signups[i].productId, signups[i].signupDate).threw

\* the loop over the profiles, from the i-th on
RECURSIVE BuildSubscribers(_, _, _, _)
BuildSubscribers(profileList, i, signupsByProfile, alertsByProfile) ==
    IF i > Len(profileList) THEN <<>>
    ELSE RecordsOf(profileList[i],
                   MapGetOrEmpty(signupsByProfile, profileList[i].id),
                   MapGetOrEmpty(alertsByProfile, profileList[i].id))
         \o BuildSubscribers(profileList, i + 1, signupsByProfile, alertsByProfile)

\* new Date(record.signupDate || 0)
SortDate(record) == NewDate(OrElse(record.signupDate, Num(0)))

\* the comparator of the final sort, bDate - aDate; sort reads a NaN as +0
Compare(a, b) ==
    LET aDate == SortDate(a)
        bDate == SortDate(b)
    IN  IF aDate.nan \/ bDate.nan THEN 0 ELSE bDate.t - aDate.t

Reverse(arr) == [i \in 1..Len(arr) |-> arr[Len(arr) + 1 - i]]

\* Array.prototype.sort on an array shorter than 64: the length of the run
\* that starts the array, counted from its idx-th element on
RECURSIVE ExtendRun(_, _, _)
ExtendRun(arr, idx, isDescending) ==
    IF idx > Len(arr) THEN Len(arr)
    ELSE LET order == Compare(arr[idx], arr[idx - 1])
         IN  IF (isDescending /\ order >= 0) \/ (~isDescending /\ order < 0)
             THEN idx - 1
             ELSE ExtendRun(arr, idx + 1, isDescending)

\* binary search of the place of pivot among arr[left .. right - 1]
RECURSIVE SearchPlace(_, _, _, _)
SearchPlace(arr, pivot, left, right) ==
    IF left >= right THEN left
    ELSE LET mid == left + ((right - left) \div 2)
         IN  IF Compare(pivot, arr[mid]) < 0
             THEN SearchPlace(arr, pivot, left, mid)
             ELSE SearchPlace(arr, pivot, mid + 1, right)

\* binary insertion of the elements from the start-th on into the sorted prefix
RECURSIVE BinaryInsertionSort(_, _)
BinaryInsertionSort(arr, start) ==
    IF start > Len(arr) THEN arr
    ELSE LET pivot == arr[start]
             place == SearchPlace(arr, pivot, 1, start)
         IN  BinaryInsertionSort(SubSeq(arr, 1, place - 1) \o <<pivot>>
                                     \o SubSeq(arr, place, start - 1)
                                     \o SubSeq(arr, start + 1, Len(arr)),
                                 start + 1)

\* subscribers.sort((a, b) => bDate - aDate)
Sort(arr) ==
    IF Len(arr) < 2 THEN arr
    ELSE LET isDescending == Compare(arr[2], arr[1]) < 0
             runLength == ExtendRun(arr, 3, isDescending)
             made == IF isDescending
                     THEN Reverse(SubSeq(arr, 1, runLength)) \o SubSeq(arr, runLength + 1, Len(arr))
                     ELSE arr
         IN  BinaryInsertionSort(made, runLength + 1)

\* the orders in which the per-profile tasks of checkReceivedBisEmails may answer
Arrivals(profileIds) ==
    {arrival \in [1..Len(profileIds) -> {profileIds[i] : i \in 1..Len(profileIds)}] :
        \A i, j \in 1..Len(profileIds) : arrival[i] = arrival[j] => i = j}

NoRun ==
    [signupsByProfile |-> EmptyMap, bisAlertsByProfile |-> EmptyMap,
     emailAlertsByProfile |-> EmptyMap, alertsByProfile |-> EmptyMap, requests |-> {}]

NoResponse == [status |-> 0, subscribers |-> <<>>, error |-> ""]

\* the answer of the catch block of GET
Failure(message) == [status |-> 500, subscribers |-> <<>>, error |-> message]

\* the requests made for the signups of a profile from the i-th on, up to the
\* first lookup that throws
RECURSIVE SignupRequests(_, _, _)
SignupRequests(profile, signups, i) ==
    IF i > Len(signups) THEN {}
    ELSE LET email == OrElse(profile.email, Str("N/A"))
             signup == signups[i]
         IN  IF getProductData(signup.productId, signup.variantId).threw THEN {}
             ELSE getProductDataRequests(signup.productId, signup.variantId)
                  \cup (IF checkIfOrdered(email, signup.productId, signup.signupDate).threw
                        THEN {}
                        ELSE checkIfOrderedRequests(email, signup.productId)
                             \cup SignupRequests(profile, signups, i + 1))

\* the requests made in the loop over the profiles from the i-th on, up to
\* the first lookup that throws
RECURSIVE LoopRequests(_, _, _)
LoopRequests(profileList, i, signupsByProfile) ==
    IF i > Len(profileList) THEN {}
    ELSE LET profile == profileList[i]
             signups == MapGetOrEmpty(signupsByProfile, profile.id)
             mine == getShopifyCustomerIdRequests(OrElse(profile.email, Str("N/A")))
                     \cup SignupRequests(profile, signups, 1)
         IN  {ReqFor(endpoint, profile.id) : endpoint \in mine}
             \cup (IF LookupThrows(profile, signups) THEN {}
                   ELSE LoopRequests(profileList, i + 1, signupsByProfile))

\* the handler of GET /api/subscribers, from the request to the response
GET ==
    /\ phase = "setup"
    /\ phase' = "done"
    /\ IF klaviyoHeadersThrows
       THEN /\ run' = NoRun
            /\ response' = Failure("KLAVIYO_PRIVATE_API_KEY not set")
       ELSE
       LET metricIds == getMetricIds
           profilesRes == ProfilesResponse
           signupsByProfile == getSignupEvents
           firstRequests == getMetricIdsRequests \cup {Req("profiles")}
                                \cup getSignupEventsRequests
       IN  IF getMetricIdsThrows \/ "profiles" \in unreachable
           THEN /\ run' = [NoRun EXCEPT !.signupsByProfile = signupsByProfile,
                                        !.requests = firstRequests]
                /\ response' = Failure("fetch failed")
           ELSE IF ~profilesRes.ok
           THEN /\ run' = [NoRun EXCEPT !.signupsByProfile = signupsByProfile,
                                        !.requests = firstRequests]
                /\ response' = Failure("Klaviyo API error")
           ELSE LET profileList == profilesRes.data
                    profileIds == [i \in 1..Len(profileList) |-> profileList[i].id]
                IN  \E arrival \in Arrivals(profileIds) :
                        LET bisAlertsByProfile == getBisAlertEvents(metricIds.bisAlert)
                            emailAlertsByProfile ==
                                checkReceivedBisEmails(metricIds.receivedEmail, profileIds, arrival)
                            alertsByProfile == MergeAlerts(bisAlertsByProfile, emailAlertsByProfile)
                            thrown == \E i \in 1..Len(profileList) :
                                          LookupThrows(profileList[i],
                                              MapGetOrEmpty(signupsByProfile, profileList[i].id))
                        IN  /\ run' = [signupsByProfile |-> signupsByProfile,
                                       bisAlertsByProfile |-> bisAlertsByProfile,
                                       emailAlertsByProfile |-> emailAlertsByProfile,
                                       alertsByProfile |-> alertsByProfile,
                                       requests |->
                                           firstRequests
                                           \cup getBisAlertEventsRequests(metricIds.bisAlert)
                                           \cup checkReceivedBisEmailsRequests(
                                                    metricIds.receivedEmail, profileIds)
                                           \cup LoopRequests(profileList, 1, signupsByProfile)]
                            /\ response' =
                                   IF thrown
                                   THEN Failure("productId.includes is not a function")
                                   ELSE [status |-> 200,
                                         subscribers |-> Sort(BuildSubscribers(profileList, 1,
                                                             signupsByProfile, alertsByProfile)),
                                         error |-> ""]
    /\ UNCHANGED <<stepVars, storeVars, normalizeVars, classifierVars>>

-----------------------------------------------------------------------------
(* Specification of normalizeProductId: an identifier text is put together  *)
(* from pieces, then the function is called on it, on a number or on null.  *)

MaxIdParts == 3

IdPieces == {"gid://", "gid:/", "/", "shopify/Product/", "123", "0"}

NumberIds == {7, 123}

RECURSIVE Concat(_)
Concat(parts) == IF parts = <<>> THEN "" ELSE Head(parts) \o Concat(Tail(parts))

\* the identifiers GET compares: props.ProductID || null is null, a non-empty
\* string or a non-zero number
OtherIds == {NULL, Str("123"), Str("0123"), Num(123), Str("gid://shopify/Product/123")}

\* process.env with the event store's key set and the commerce system's
\* domain and token not set
KeyOnly ==
    [KLAVIYO_PRIVATE_API_KEY |-> TRUE, SHOPIFY_STORE_DOMAIN |-> FALSE,
     SHOPIFY_ADMIN_TOKEN |-> FALSE]

\* the webhook before any call: no response, nothing logged
NoWebhook ==
    [calls |-> 0, status |-> 0, alertsSent |-> 0, subscribersFound |-> 0, body |-> <<>>,
     details |-> [found |-> FALSE, id |-> NULL, inventory |-> NULL],
     created |-> <<>>, requests |-> {}, log |-> {}]

\* GET before it is called step by step: nothing in flight, no local set
NoFlight ==
    [pc |-> "idle", pending |-> {}, settled |-> {},
     metricIds |-> [bisAlert |-> NULL, receivedEmail |-> NULL],
     profilesOk |-> FALSE, profileList |-> <<>>,
     signupsByProfile |-> EmptyMap, bisAlertsByProfile |-> EmptyMap,
     byProfile |-> EmptyMap, alertsByProfile |-> EmptyMap,
     i |-> 1, j |-> 1, stage |-> "customer",
     shopifyCustomerId |-> NULL, alertSent |-> FALSE,
     product |-> [inventory |-> NULL, sku |-> NULL], ordered |-> FALSE,
     subscribers |-> <<>>, peak |-> 0, shared |-> {}, mix |-> {}]

\* the dashboard before it is mounted
NoDash ==
    [subscribers |-> <<>>, error |-> NULL, loading |-> TRUE, started |-> 0,
     running |-> {}, finished |-> <<>>, overlapped |-> FALSE]

\* the variables of the step-by-step specifications while another one runs
StepsIdle == flight = NoFlight /\ dash = NoDash

\* the pipeline's variables while a specification of a helper runs
PipelineIdle ==
    /\ profiles = <<>> /\ signupEvents = <<>> /\ alertEvents = <<>> /\ emailEvents = <<>>
    /\ metrics = Metrics
    /\ failing = {} /\ unreachable = {} /\ env = KeyOnly
    /\ run = NoRun /\ response = NoResponse /\ webhook = NoWebhook /\ backlog = 0

NormalizeIdle ==
    /\ idParts = <<>> /\ idIn = NONE /\ idOther = NONE /\ idOut = NONE
    /\ idSame = FALSE

ClassifierIdle ==
    textParts = <<>> /\ subject = NONE /\ preview = NONE /\ verdict = FALSE

InitNormalize == phase = "setup" /\ NormalizeIdle /\ ClassifierIdle /\ StepsIdle /\ PipelineIdle

AppendIdPiece ==
    /\ phase = "setup"
    /\ Len(idParts) < MaxIdParts
    /\ \E piece \in IdPieces : idParts' = Append(idParts, piece)
    /\ UNCHANGED <<stepVars, phase, idIn, idOther, idOut, idSame, classifierVars, pipelineVars>>

CallNormalize(id, other) ==
    /\ phase = "setup"
    /\ phase' = "done"
    /\ idIn' = id
    /\ idOther' = other
    /\ idOut' = normalizeProductId(id)
    /\ idSame' = SameProduct(id, other)
    /\ UNCHANGED <<stepVars, idParts, classifierVars, pipelineVars>>

NormalizeText ==
    /\ idParts # <<>>
    /\ \E other \in OtherIds : CallNormalize(Str(Concat(idParts)), other)

NormalizeNumber ==
    /\ idParts = <<>>
    /\ \E n \in NumberIds, other \in OtherIds : CallNormalize(Num(n), other)

NormalizeNull ==
    /\ idParts = <<>>
    /\ \E other \in OtherIds : CallNormalize(NULL, other)

NextNormalize ==
    \/ AppendIdPiece
    \/ NormalizeText
    \/ NormalizeNumber
    \/ NormalizeNull

SpecNormalize == InitNormalize /\ [][NextNormalize]_vars

\* the part of str after its last "/", stated by what it is: the suffix that
\* holds no "/" and follows one
TrailingSuffix(str) ==
    CHOOSE t \in {SubSeq(str, i, Len(str)) : i \in 2..(Len(str) + 1)} :
        /\ ~Includes(t, "/")
        /\ SubSeq(str, Len(str) - Len(t), Len(str) - Len(t)) = "/"

\* the canonical form the specification gives an identifier
CanonicalForm(id) ==
    IF id = NULL THEN NULL
    ELSE IF id.k = "number" THEN Str(Decimal(id.n))
    ELSE IF Includes(id.s, "gid://") THEN Str(TrailingSuffix(id.s))
    ELSE id

\* C7: normalizeProductId returns absent for an absent identifier, the part
\* after the last path separator for a global identifier (so that
\* "gid://shopify/Product/123" and "123" both give "123"), and the identifier
\* unchanged, as a string, otherwise; two identifiers are the same product
\* exactly when these canonical forms are the same string, so "0123" and
\* "123" are different products.
C7_NormalizeId ==
    (phase = "done" /\ idIn # NONE) =>
        /\ idOut = CanonicalForm(idIn)
        /\ idSame = (CanonicalForm(idIn) = CanonicalForm(idOther))
        /\ (idIn = NULL => idOut = NULL)
        /\ (idIn \in {Str("gid://shopify/Product/123"), Str("123"), Num(123)}
                => idOut = Str("123"))
        /\ (idIn = Str("0123") /\ idOther \in {Str("123"), Num(123)} => ~idSame)

C7_Witness ==
    /\ phase = "done"
    /\ idIn = Str("gid://shopify/Product/123")
    /\ idOut = Str("123")
    /\ idOther = Str("123")
    /\ idSame

-----------------------------------------------------------------------------
(* Specification of isBisEmailSubject: a message text is put together from  *)
(* pieces, then the function is called with it as subject, as preview text  *)
(* or as both; the other argument is absent.                                *)

MaxTextParts == 3

TextPieces ==
    {"It", "'", U2019, "s here", "Back ", "In Stock", "Re", "stock",
     "Now Available", "Ready to ", "order", "Pre", "-", "\""}

TextValue(parts) == IF parts = <<>> THEN NULL ELSE Str(Concat(parts))

InitClassifier == phase = "setup" /\ NormalizeIdle /\ ClassifierIdle /\ StepsIdle /\ PipelineIdle

AppendTextPiece ==
    /\ phase = "setup"
    /\ Len(textParts) < MaxTextParts
    /\ \E piece \in TextPieces : textParts' = Append(textParts, piece)
    /\ UNCHANGED <<stepVars, phase, subject, preview, verdict, normalizeVars, pipelineVars>>

Classify(subj, prev) ==
    /\ phase = "setup"
    /\ phase' = "done"
    /\ subject' = subj
    /\ preview' = prev
    /\ verdict' = isBisEmailSubject(subj, prev)
    /\ UNCHANGED <<stepVars, textParts, normalizeVars, pipelineVars>>

ClassifySubject == Classify(TextValue(textParts), NULL)

ClassifyPreview == Classify(NULL, TextValue(textParts))

ClassifyBoth == Classify(TextValue(textParts), TextValue(textParts))

NextClassifier ==
    \/ AppendTextPiece
    \/ ClassifySubject
    \/ ClassifyPreview
    \/ ClassifyBoth

SpecClassifier == InitClassifier /\ [][NextClassifier]_vars

(* The same calls on texts dense in quotation marks. *)

QuotedPieces == {"It", "'", U2019, "s here", "In Stock", "\""}

AppendQuotedPiece ==
    /\ phase = "setup"
    /\ Len(textParts) < MaxTextParts
    /\ \E piece \in QuotedPieces : textParts' = Append(textParts, piece)
    /\ UNCHANGED <<stepVars, phase, subject, preview, verdict, normalizeVars, pipelineVars>>

NextQuotes ==
    \/ AppendQuotedPiece
    \/ ClassifySubject
    \/ ClassifyPreview
    \/ ClassifyBoth

SpecQuotes == InitClassifier /\ [][NextQuotes]_vars

SubjectPhrases ==
    {"back in stock", "it's here", "ready to order", "now available",
     "in stock", "restock", "pre-order", "preorder"}

PreviewPhrases == {"back in stock", "now available", "in stock", "restock"}

\* a character lower-cased and with a curly quotation mark made straight
CanonicalChar(c) ==
    IF c \in SingleCurly THEN "'"
    ELSE IF c \in DoubleCurly THEN "\""
    ELSE LowerChar(c)

\* phrase occurs in text, character by character, up to case and quote glyph
Occurs(text, phrase) ==
    \E i \in 0..(Len(text) - Len(phrase)) :
        \A j \in 1..Len(phrase) :
            CanonicalChar(SubSeq(text, i + j, i + j)) = SubSeq(phrase, j, j)

\* an absent text counts as the empty text
TextOf(v) == IF v.k = "string" THEN v.s ELSE ""

\* the texts that differ from str only in the glyph of its straight quotes
StraightVariants(c) ==
    IF c = "'" THEN {"'"} \cup SingleCurly
    ELSE IF c = "\"" THEN {"\""} \cup DoubleCurly
    ELSE {c}

RECURSIVE QuoteVariants(_)
QuoteVariants(str) ==
    LET at == {i \in 1..Len(str) : SubSeq(str, i, i) \in {"'", "\""}}
    IN  IF at = {} THEN {str}
        ELSE LET i == CHOOSE j \in at : \A l \in at : j <= l
             IN  {SubSeq(str, 1, i - 1) \o c \o rest :
                     c \in StraightVariants(SubSeq(str, i, i)),
                     rest \in QuoteVariants(SubSeq(str, i + 1, Len(str)))}

\* the same, with one glyph chosen for all apostrophes and one for all double quotes
UniformVariants(str) ==
    {ReplaceClass(ReplaceClass(str, {"'"}, q1), {"\""}, q2) :
        q1 \in StraightVariants("'"), q2 \in StraightVariants("\"")}

ValueVariants(v) == IF v.k = "string" THEN {Str(t) : t \in QuoteVariants(v.s)} ELSE {v}

UniformValueVariants(v) ==
    IF v.k = "string" THEN {Str(t) : t \in UniformVariants(v.s)} ELSE {v}

\* C8: the classifier gives a subject and preview the same answer whatever
\* curly or low glyph replaces any of their straight apostrophes and straight
\* double quotes (occurrence by occurrence in the subject, in the preview,
\* and kind by kind in both at once), and normalizeQuotes applied twice gives
\* what it gives applied once.
C8_QuoteGlyphsIrrelevant ==
    (phase = "done" /\ subject # NONE) =>
        /\ \A s2 \in ValueVariants(subject) : isBisEmailSubject(s2, preview) = verdict
        /\ \A p2 \in ValueVariants(preview) : isBisEmailSubject(subject, p2) = verdict
        /\ \A s2 \in UniformValueVariants(subject), p2 \in UniformValueVariants(preview) :
               isBisEmailSubject(s2, p2) = verdict
        /\ \A t \in QuoteVariants(TextOf(subject)) \cup QuoteVariants(TextOf(preview)) :
               normalizeQuotes(normalizeQuotes(t)) = normalizeQuotes(t)

C8_Witness ==
    /\ phase = "done"
    /\ subject = Str("It's here")
    /\ preview = NULL
    /\ verdict
    /\ Str("It" \o U2018 \o "s here") \in ValueVariants(subject)

\* C9: the classifier answers true exactly when the subject, lower-cased and
\* with straight quotes, holds one of the eight subject phrases, or the
\* preview, likewise, holds one of the four preview phrases; an absent subject
\* or preview is the empty text, and a phrase of the subject list alone does
\* not count in the preview.
C9_PhraseLists ==
    (phase = "done" /\ subject # NONE) =>
        verdict = (\/ \E ph \in SubjectPhrases : Occurs(TextOf(subject), ph)
                   \/ \E ph \in PreviewPhrases : Occurs(TextOf(preview), ph))

C9_Witness ==
    /\ phase = "done"
    /\ subject = NULL
    /\ preview = Str("Pre-order")
    /\ ~verdict

-----------------------------------------------------------------------------
(* Specifications of GET: the event store is filled event by event, then    *)
(* the handler runs once.  Listings are newest first (sort=-datetime).      *)

MaxEvents == 3

Ann == [id |-> "p1", email |-> Str("ann@example.com"), first_name |-> Str("Ann"),
        last_name |-> Str("Lee"), created |-> NULL]
Bob == [id |-> "p2", email |-> NULL, first_name |-> NULL,
        last_name |-> Str("Bob"), created |-> Str(Iso(2))]

\* a text that is not a date
BadDate == Str("soon")

SignupEvent(profile, productId, signupDate, datetime) ==
    [profile |-> profile,
     props |-> [ProductID |-> productId, VariantID |-> NULL,
                ProductTitle |-> Str("Kettle"), ProductURL |-> NULL,
                SignupDate |-> signupDate],
     datetime |-> datetime]

AlertEvent(profile, productId, datetime) ==
    [profile |-> profile, props |-> [ProductID |-> productId], datetime |-> datetime]

EmailEvent(profile, subj, prev, datetime) ==
    [profile |-> profile, props |-> [Subject |-> subj, PreviewText |-> prev],
     datetime |-> datetime]

\* the rank of an event in a listing sorted by datetime; an event without a
\* readable datetime ranks lowest
Rank(event) ==
    LET time == NewDate(event.datetime)
    IN  IF time.nan THEN 0 ELSE time.t

\* the listing after the store has recorded one more event
Listed(events, event) ==
    LET before == SelectSeq(events, LAMBDA e : Rank(e) >= Rank(event))
        after == SelectSeq(events, LAMBDA e : Rank(e) < Rank(event))
    IN  before \o <<event>> \o after

EventCount ==
    Len(signupEvents) + Len(alertEvents) + Len(emailEvents)
    + Cardinality(failing) + Cardinality(unreachable) + webhook.calls + dash.started

RecordSignup(event) ==
    /\ phase = "setup"
    /\ EventCount < MaxEvents
    /\ signupEvents' = Listed(signupEvents, event)
    /\ UNCHANGED <<stepVars, backlog, phase, profiles, metrics, webhook, alertEvents, emailEvents, failing, unreachable, env, run, response,
                   normalizeVars, classifierVars>>

RecordAlert(event) ==
    /\ phase = "setup"
    /\ EventCount < MaxEvents
    /\ alertEvents' = Listed(alertEvents, event)
    /\ UNCHANGED <<stepVars, backlog, phase, profiles, metrics, webhook, signupEvents, emailEvents, failing, unreachable, env, run, response,
                   normalizeVars, classifierVars>>

RecordEmail(event) ==
    /\ phase = "setup"
    /\ EventCount < MaxEvents
    /\ emailEvents' = Listed(emailEvents, event)
    /\ UNCHANGED <<stepVars, backlog, phase, profiles, metrics, webhook, signupEvents, alertEvents, failing, unreachable, env, run, response,
                   normalizeVars, classifierVars>>

\* an endpoint of the event store starts answering with a non-success status
EndpointFails(endpoint) ==
    /\ phase = "setup"
    /\ EventCount < MaxEvents
    /\ endpoint \notin failing
    /\ failing' = failing \cup {endpoint}
    /\ UNCHANGED <<stepVars, backlog, phase, profiles, metrics, webhook, signupEvents, alertEvents, emailEvents, unreachable, env, run,
                   response,
                   normalizeVars, classifierVars>>

\* SHOPIFY_STORE_DOMAIN and SHOPIFY_ADMIN_TOKEN are set
ConfigureShop ==
    /\ phase = "setup"
    /\ ~env.SHOPIFY_STORE_DOMAIN /\ ~env.SHOPIFY_ADMIN_TOKEN
    /\ signupEvents = <<>> /\ alertEvents = <<>> /\ emailEvents = <<>> /\ failing = {}
    /\ env' = [env EXCEPT !.SHOPIFY_STORE_DOMAIN = TRUE, !.SHOPIFY_ADMIN_TOKEN = TRUE]
    /\ UNCHANGED <<stepVars, backlog, phase, profiles, metrics, webhook, signupEvents, alertEvents, emailEvents, failing,
                   unreachable, run,
                   response, normalizeVars, classifierVars>>

\* the (SignupDate, datetime) pairs of the signup events
SignupTimes ==
    {<<NULL, NULL>>, <<NULL, Str(Iso(1))>>, <<Str(Iso(3)), Str(Iso(1))>>,
     <<BadDate, Str(Iso(1))>>}

(* One subscriber, signups and alerts of several products and times *)

DecisionSignups ==
    {SignupEvent(Str("p1"), productId, times[1], times[2]) :
        productId \in {Str("gid://shopify/Product/101"), Str("202")},
        times \in SignupTimes}
    \cup {SignupEvent(Str("p1"), Num(101), NULL, Str(Iso(1)))}

DecisionAlerts ==
    {AlertEvent(Str("p1"), productId, datetime) :
        productId \in {Str("101"), Num(202)},
        datetime \in {NULL, BadDate, Str(Iso(1)), Str(Iso(2))}}
    \cup {AlertEvent(Str("p1"), NULL, Str(Iso(2)))}

DecisionEmails ==
    {EmailEvent(Str("p1"), Str("Back in stock!"), NULL, Str(Iso(2))),
     EmailEvent(Str("p1"), Str("Your order"), NULL, Str(Iso(4)))}

InitDecision ==
    /\ phase = "setup" /\ NormalizeIdle /\ ClassifierIdle /\ StepsIdle
    /\ profiles = <<Ann>>
    /\ signupEvents = <<>> /\ alertEvents = <<>> /\ emailEvents = <<>>
    /\ metrics = Metrics
    /\ failing = {} /\ unreachable = {} /\ env = KeyOnly
    /\ run = NoRun /\ response = NoResponse /\ webhook = NoWebhook /\ backlog = 0

NextDecision ==
    \/ \E event \in DecisionSignups : RecordSignup(event)
    \/ \E event \in DecisionAlerts : RecordAlert(event)
    \/ \E event \in DecisionEmails : RecordEmail(event)
    \/ GET

SpecDecision == InitDecision /\ [][NextDecision]_vars

(* Two listed subscribers and one that is not listed *)

StoreSignups ==
    {SignupEvent(Str("p1"), Str("gid://shopify/Product/101"), times[1], times[2]) :
        times \in SignupTimes}
    \cup {SignupEvent(Str("p2"), Str("202"), NULL, Str(Iso(1))),
          SignupEvent(Str("p3"), Str("202"), NULL, Str(Iso(1))),
          SignupEvent(NULL, Str("202"), NULL, Str(Iso(1)))}

StoreAlerts ==
    {AlertEvent(Str("p1"), Str("101"), Str(Iso(2))),
     AlertEvent(Str("p1"), Str("101"), Str(Iso(4))),
     AlertEvent(Str("p2"), Str("101"), Str(Iso(2))),
     AlertEvent(Str("p3"), Str("101"), Str(Iso(2)))}

StoreEmails ==
    {EmailEvent(Str("p1"), Str("Back in stock"), NULL, Str(Iso(4))),
     EmailEvent(Str("p1"), NULL, Str("Now available"), Str(Iso(2))),
     EmailEvent(Str("p1"), Str("Hello"), Str("Pre-order"), Str(Iso(4))),
     EmailEvent(Str("p2"), Str("Back in stock"), NULL, Str(Iso(4)))}

Endpoints == {"metrics", "profiles", "signups", "alerts", "emails"}

Init ==
    /\ phase = "setup" /\ NormalizeIdle /\ ClassifierIdle /\ StepsIdle
    /\ profiles = <<Ann, Bob>>
    /\ signupEvents = <<>> /\ alertEvents = <<>> /\ emailEvents = <<>>
    /\ metrics = Metrics
    /\ failing = {} /\ unreachable = {} /\ env = KeyOnly
    /\ run = NoRun /\ response = NoResponse /\ webhook = NoWebhook /\ backlog = 0

Next ==
    \/ \E event \in StoreSignups : RecordSignup(event)
    \/ \E event \in StoreAlerts : RecordAlert(event)
    \/ \E event \in StoreEmails : RecordEmail(event)
    \/ \E endpoint \in Endpoints : EndpointFails(endpoint)
    \/ ConfigureShop
    \/ GET

Spec == Init /\ [][Next]_vars

-----------------------------------------------------------------------------
(* What the specification says of a run, in terms of the store's events     *)

Succeeded == phase = "done" /\ response.status = 200

Records == response.subscribers

ListedIds == {profiles[i].id : i \in 1..Len(profiles)}

\* the point in time a timestamp names: the epoch start when it is absent,
\* none (-1) when it is a text that is not a date
Instant(v) ==
    IF v = NULL THEN 0
    ELSE IF \E d \in 1..9 : v = Str(Iso(d))
    THEN 19722 + (CHOOSE d \in 1..9 : v = Str(Iso(d)))
    ELSE -1

StrictlyLater(a, b) == Instant(a) >= 0 /\ Instant(b) >= 0 /\ Instant(a) > Instant(b)

\* a message that the phrase lists make a restock message
RestockMessage(event) ==
    \/ \E ph \in SubjectPhrases : Occurs(TextOf(event.props.Subject), ph)
    \/ \E ph \in PreviewPhrases : Occurs(TextOf(event.props.PreviewText), ph)

\* the explicit alert signals of a subscriber, in store order
ExplicitSignals(p) ==
    LET mine == SelectSeq(alertEvents, LAMBDA e : e.profile = Str(p))
    IN  [i \in 1..Len(mine) |->
            [productId |-> mine[i].props.ProductID, date |-> mine[i].datetime]]

\* the inferred alert signals of a subscriber, in store order
InferredSignals(p) ==
    LET mine == SelectSeq(emailEvents, LAMBDA e : e.profile = Str(p) /\ RestockMessage(e))
    IN  [i \in 1..Len(mine) |-> [productId |-> NULL, date |-> mine[i].datetime]]

\* the signals of each source that a run reads: none from a source whose
\* listing fails, and messages only of listed subscribers
ExplicitRead(p) ==
    IF {"metrics", "alerts"} \cap failing = {} THEN ExplicitSignals(p) ELSE <<>>

InferredRead(p) ==
    IF {"metrics", "emails"} \cap failing = {} /\ p \in ListedIds
    THEN InferredSignals(p) ELSE <<>>

SignalsRead(p) == ExplicitRead(p) \o InferredRead(p)

\* the signup events of a subscriber that a run reads, in store order
SignupsRead(p) ==
    IF /\ {"metrics", "signups"} \cap (failing \cup unreachable) = {}
       /\ \E i \in 1..Len(metrics) : toLowerCase(metrics[i].name) = "back in stock signup"
    THEN SelectSeq(signupEvents, LAMBDA e : e.profile = Str(p))
    ELSE <<>>

\* the signup timestamp of an event: the event's own one when none is given
SignupTimestamp(event) ==
    IF event.props.SignupDate # NULL THEN event.props.SignupDate ELSE event.datetime

\* does the signal satisfy a signup of this product and time
Satisfies(signal, productId, timestamp) ==
    /\ StrictlyLater(signal.date, timestamp)
    /\ \/ signal.productId = NULL
       \/ CanonicalForm(signal.productId) = CanonicalForm(productId)

\* the records of the output that come from signup events
SignupRecords == {k \in 1..Len(Records) : SignupsRead(Records[k].profileId) # <<>>}

\* C1: the record of a signup says alertSent exactly when some alert of the
\* same subscriber is strictly later than the signup and either names no
\* product or names the signup's product up to the canonical form; so an
\* inferred alert later than the signup satisfies it whatever its product.
C1_AlertSentDecision ==
    Succeeded =>
        \A k \in SignupRecords :
            LET r == Records[k]
                signals == SignalsRead(r.profileId)
            IN  /\ r.alertSent =
                       (\E i \in 1..Len(signals) :
                            Satisfies(signals[i], r.productId, r.signupDate))
                /\ (\E i \in 1..Len(InferredRead(r.profileId)) :
                        StrictlyLater(InferredRead(r.profileId)[i].date, r.signupDate))
                       => r.alertSent

C1_Witness ==
    /\ Succeeded
    /\ alertEvents # <<>>
    /\ \A i \in 1..Len(alertEvents) : alertEvents[i].props.ProductID = Str("101")
    /\ \E k \in SignupRecords :
           /\ Records[k].productId = Str("202")
           /\ Records[k].alertSent
           /\ InferredRead(Records[k].profileId) # <<>>

\* C2: no record says alertSent unless its subscriber has a signal strictly
\* later than the record's signup timestamp; a signal at or before the signup,
\* or with a timestamp that is not a date, or against a signup timestamp that
\* is not a date, never counts (an absent timestamp is the epoch start).
C2_OnlyLaterAlerts ==
    Succeeded =>
        \A k \in 1..Len(Records) :
            Records[k].alertSent =>
                \E i \in 1..Len(SignalsRead(Records[k].profileId)) :
                    StrictlyLater(SignalsRead(Records[k].profileId)[i].date,
                                  Records[k].signupDate)

C2_Witness ==
    /\ Succeeded
    /\ \E k \in SignupRecords :
           LET r == Records[k]
               signals == SignalsRead(r.profileId)
           IN  /\ ~r.alertSent
               /\ r.signupDate = Str(Iso(1))
               /\ \E i \in 1..Len(signals) :
                      /\ signals[i].date = Str(Iso(1))
                      /\ CanonicalForm(signals[i].productId) = CanonicalForm(r.productId)
               /\ \E i \in 1..Len(signals) : signals[i].date = BadDate

\* C3: each signup is judged on its own: when a subscriber's only alert is an
\* explicit one for product A, later than the signup for A and earlier than
\* the signup for another product B, the record of A says alertSent and the
\* record of B does not.
C3_SignupsJudgedSeparately ==
    Succeeded =>
        \A a, b \in SignupRecords :
            LET rA == Records[a]
                rB == Records[b]
                signals == SignalsRead(rA.profileId)
            IN  (/\ rA.profileId = rB.profileId
                 /\ Len(signals) = 1
                 /\ signals[1].productId # NULL
                 /\ CanonicalForm(signals[1].productId) = CanonicalForm(rA.productId)
                 /\ CanonicalForm(signals[1].productId) # CanonicalForm(rB.productId)
                 /\ StrictlyLater(signals[1].date, rA.signupDate)
                 /\ StrictlyLater(rB.signupDate, signals[1].date))
                    => rA.alertSent /\ ~rB.alertSent

C3_Witness ==
    /\ Succeeded
    /\ alertEvents = <<AlertEvent(Str("p1"), Str("101"), Str(Iso(2)))>>
    /\ emailEvents = <<>>
    /\ Len(Records) = 2
    /\ \E a, b \in 1..2 :
           /\ Records[a].productId = Str("gid://shopify/Product/101")
           /\ Records[a].signupDate = Str(Iso(1))
           /\ Records[a].alertSent
           /\ Records[b].productId = Str("202")
           /\ Records[b].signupDate = Str(Iso(3))
           /\ ~Records[b].alertSent

\* the records of the output that belong to a subscriber
RecordsFor(p) == {k \in 1..Len(Records) : Records[k].profileId = p}

\* C4: a listed subscriber without signup events gets exactly one record: no
\* product id, title, url or variant, alertSent false whatever alerts the
\* subscriber has, the subscriber's id as record id and the profile's
\* creation time as signup timestamp.
C4_FallbackRecord ==
    Succeeded =>
        \A i \in 1..Len(profiles) :
            SignupsRead(profiles[i].id) = <<>> =>
                /\ Cardinality(RecordsFor(profiles[i].id)) = 1
                /\ \A k \in RecordsFor(profiles[i].id) :
                       /\ Records[k].productId = NULL
                       /\ Records[k].productTitle = NULL
                       /\ Records[k].productUrl = NULL
                       /\ Records[k].variantId = NULL
                       /\ ~Records[k].alertSent
                       /\ Records[k].id = profiles[i].id
                       /\ Records[k].signupDate = profiles[i].created

C4_Witness ==
    /\ Succeeded
    /\ \E i \in 1..Len(profiles) :
           /\ \A j \in 1..Len(signupEvents) : signupEvents[j].profile # Str(profiles[i].id)
           /\ ExplicitRead(profiles[i].id) # <<>>
           /\ \E s \in 1..Len(InferredRead(profiles[i].id)) :
                  StrictlyLater(InferredRead(profiles[i].id)[s].date, profiles[i].created)
           /\ \E k \in RecordsFor(profiles[i].id) : ~Records[k].alertSent

\* the number of records the listed profiles from the i-th on should give
RECURSIVE ExpectedCount(_)
ExpectedCount(i) ==
    IF i > Len(profiles) THEN 0
    ELSE (IF SignupsRead(profiles[i].id) = <<>> THEN 1 ELSE Len(SignupsRead(profiles[i].id)))
         + ExpectedCount(i + 1)

\* the record carries the fields of the signup event
RecordOfEvent(record, event) ==
    /\ record.productId = event.props.ProductID
    /\ record.productTitle = event.props.ProductTitle
    /\ record.signupDate = SignupTimestamp(event)

\* C5: a successful run gives one record for each signup event of each listed
\* subscriber, one record for each listed subscriber without signup events,
\* and nothing else: as many records as the sum over the listed profiles of
\* max(1, number of signups), and none for events of unlisted subscribers.
C5_OneRecordPerSignup ==
    Succeeded =>
        /\ Len(Records) = ExpectedCount(1)
        /\ \A k \in 1..Len(Records) : Records[k].profileId \in ListedIds
        /\ \A p \in ListedIds :
               LET events == SignupsRead(p)
               IN  IF events = <<>> THEN Cardinality(RecordsFor(p)) = 1
                   ELSE /\ Cardinality(RecordsFor(p)) = Len(events)
                        /\ \A i \in 1..Len(events) :
                               Cardinality({k \in RecordsFor(p) :
                                               RecordOfEvent(Records[k], events[i])})
                               = Cardinality({j \in 1..Len(events) :
                                                 /\ events[j].props = events[i].props
                                                 /\ SignupTimestamp(events[j])
                                                        = SignupTimestamp(events[i])})

C5_Witness ==
    /\ Succeeded
    /\ \E j \in 1..Len(signupEvents) : signupEvents[j].profile = Str("p3")
    /\ Len(SignupsRead("p1")) = 2
    /\ SignupsRead("p2") = <<>>
    /\ Len(Records) = 3

\* the timestamp by which a record is ordered: the epoch start when the
\* signup timestamp is absent or is not a date
OrderingInstant(record) ==
    IF Instant(record.signupDate) < 0 THEN 0 ELSE Instant(record.signupDate)

\* C6: in the output every record comes before the records with an earlier
\* signup timestamp, a record whose timestamp is absent or is not a date
\* counting as timestamped at the epoch start.
C6_NewestFirst ==
    Succeeded =>
        \A i, j \in 1..Len(Records) :
            i < j => OrderingInstant(Records[i]) >= OrderingInstant(Records[j])

SubscriberIds == {"p1", "p2", "p3"}

\* C10: the alert index gives every subscriber the explicit signals read, in
\* store order, followed by the inferred signals read, each signal once; a
\* subscriber of one source only has that source's list, and no subscriber
\* has two entries.
C10_AlertIndexIsUnion ==
    (phase = "done" /\ "profiles" \notin failing) =>
        /\ \A p \in SubscriberIds :
               MapGetOrEmpty(run.alertsByProfile, p) = ExplicitRead(p) \o InferredRead(p)
        /\ \A i, j \in 1..Len(run.alertsByProfile) :
               run.alertsByProfile[i].key = run.alertsByProfile[j].key => i = j
        /\ \A i \in 1..Len(run.alertsByProfile) :
               run.alertsByProfile[i].key \in SubscriberIds

C10_Witness ==
    /\ phase = "done" /\ "profiles" \notin failing
    /\ ExplicitRead("p1") # <<>> /\ InferredRead("p1") # <<>>
    /\ ExplicitRead("p2") = <<>> /\ InferredRead("p2") # <<>>
    /\ Len(MapGetOrEmpty(run.alertsByProfile, "p1")) = 2
    /\ Len(MapGetOrEmpty(run.alertsByProfile, "p2")) = 1


-----------------------------------------------------------------------------
(* Failures: endpoints that answer with an error or cannot be reached, keys *)
(* that are not set, a store that does not list the signup metric           *)

\* a signup event that names a variant too
VariantSignupEvent(profile, productId, variantId, datetime) ==
    [SignupEvent(profile, productId, NULL, datetime) EXCEPT !.props.VariantID = variantId]

FailureSignups ==
    {SignupEvent(Str("p1"), Str("gid://shopify/Product/101"), NULL, Str(Iso(1))),
     SignupEvent(Str("p1"), Num(101), NULL, Str(Iso(3))),
     VariantSignupEvent(Str("p1"), Str("101"), Num(12), Str(Iso(3))),
     SignupEvent(Str("p2"), Str("101"), NULL, Str(Iso(1)))}

ShopEndpoints == {"customers", "products", "orders"}

\* a store whose signup metric has another name
OtherMetrics ==
    <<[id |-> "M1", name |-> "Notify Me Signup"],
      [id |-> "M2", name |-> "Back in Stock Alert"],
      [id |-> "M3", name |-> "Received Email"]>>

Configured ==
    [KLAVIYO_PRIVATE_API_KEY |-> TRUE, SHOPIFY_STORE_DOMAIN |-> TRUE,
     SHOPIFY_ADMIN_TOKEN |-> TRUE]

NoKey ==
    [KLAVIYO_PRIVATE_API_KEY |-> FALSE, SHOPIFY_STORE_DOMAIN |-> TRUE,
     SHOPIFY_ADMIN_TOKEN |-> TRUE]

Deployments ==
    {<<Configured, Metrics>>, <<Configured, OtherMetrics>>, <<KeyOnly, Metrics>>,
     <<NoKey, Metrics>>}

\* fetch on an endpoint starts to throw (the host cannot be reached)
EndpointUnreachable(endpoint) ==
    /\ phase = "setup"
    /\ EventCount < MaxEvents
    /\ endpoint \notin failing \cup unreachable
    /\ unreachable' = unreachable \cup {endpoint}
    /\ UNCHANGED <<stepVars, backlog, phase, profiles, metrics, webhook, signupEvents, alertEvents, emailEvents, failing,
                   env, run, response, normalizeVars, classifierVars>>

FailureAlerts == {AlertEvent(Str("p1"), Str("101"), Str(Iso(2)))}

InitFailures ==
    /\ phase = "setup" /\ NormalizeIdle /\ ClassifierIdle /\ StepsIdle
    /\ profiles = <<Ann, Bob>>
    /\ signupEvents = <<>> /\ alertEvents = <<>> /\ emailEvents = <<>>
    /\ \E d \in Deployments : env = d[1] /\ metrics = d[2]
    /\ failing = {} /\ unreachable = {}
    /\ run = NoRun /\ response = NoResponse /\ webhook = NoWebhook /\ backlog = 0

NextFailures ==
    \/ \E event \in FailureSignups : RecordSignup(event)
    \/ \E event \in FailureAlerts : RecordAlert(event)
    \/ \E endpoint \in Endpoints \cup ShopEndpoints :
           endpoint \notin unreachable /\ EndpointFails(endpoint)
    \/ \E endpoint \in Endpoints \cup ShopEndpoints : EndpointUnreachable(endpoint)
    \/ GET

SpecFailures == InitFailures /\ [][NextFailures]_vars

-----------------------------------------------------------------------------
(* What the specification says of failures                                  *)

\* the run has its key, and the listings of metrics and profiles answer
ReadsProfiles ==
    /\ env.KLAVIYO_PRIVATE_API_KEY
    /\ "profiles" \notin failing \cup unreachable
    /\ "metrics" \notin unreachable

ShopConfigured == env.SHOPIFY_STORE_DOMAIN /\ env.SHOPIFY_ADMIN_TOKEN

IsText(v) == v # NULL /\ v.k = "string"

\* the lookup of a record's product fails: the endpoint fails, or the
\* request cannot be prepared from the identifiers
ProductLookupFails(record) ==
    \/ "products" \in failing \cup unreachable
    \/ ~IsText(record.productId)
    \/ record.variantId # NULL /\ ~IsText(record.variantId)

OrderLookupFails(record) ==
    \/ "orders" \in failing \cup unreachable
    \/ ~IsText(record.productId)

\* C11: a lookup that fails for a signup (error status, transport error, or
\* an exception while its request is prepared from the product or variant
\* identifier) leaves the run successful and the signup's record in the
\* output, with inventory and SKU unknown, ordered false, or the customer id
\* unknown.
C11_LookupFailureDegrades ==
    (phase = "done" /\ ReadsProfiles /\ ShopConfigured) =>
        /\ response.status = 200
        /\ Len(Records) = ExpectedCount(1)
        /\ \A k \in SignupRecords :
               /\ ProductLookupFails(Records[k])
                      => Records[k].inventory = NULL /\ Records[k].sku = NULL
               /\ OrderLookupFails(Records[k]) => ~Records[k].ordered
               /\ "customers" \in failing \cup unreachable
                      => Records[k].shopifyCustomerId = NULL

\* C12: when the listing of the profiles fails, by an error status or by a
\* transport error, the run answers with a non-2xx status, an error message
\* and an empty subscribers list, whatever signups the store holds.
C12_ProfileListFailureAborts ==
    (phase = "done" /\ "profiles" \in failing \cup unreachable) =>
        /\ response.status = 500
        /\ response.error # ""
        /\ response.subscribers = <<>>

C12_Witness ==
    /\ phase = "done"
    /\ env.KLAVIYO_PRIVATE_API_KEY
    /\ "profiles" \in failing
    /\ failing \cup unreachable = {"profiles"}
    /\ run.signupsByProfile # EmptyMap
    /\ response.status = 500
    /\ response.error = "Klaviyo API error"

\* C13: with the key set, a run fails only when the listing of the profiles
\* fails: whatever other endpoints answer with an error status or cannot be
\* reached, the run answers 200 with a subscribers list.
C13_OnlyProfileListFails ==
    (/\ phase = "done"
     /\ env.KLAVIYO_PRIVATE_API_KEY
     /\ "profiles" \notin failing \cup unreachable)
        => response.status = 200

\* no metric of the store has the signup metric's name, in any letter case
SignupMetricAbsent ==
    \A i \in 1..Len(metrics) : toLowerCase(metrics[i].name) # "back in stock signup"

\* C14: when the metric listing answers and holds no metric named as the
\* signup metric, the signup index is empty whatever events the store holds,
\* and the run succeeds (the profile listing answering) with one record for
\* each listed profile.
C14_AbsentSignupMetric ==
    (/\ phase = "done"
     /\ env.KLAVIYO_PRIVATE_API_KEY
     /\ "metrics" \notin failing \cup unreachable
     /\ SignupMetricAbsent)
        => /\ run.signupsByProfile = EmptyMap
           /\ "profiles" \notin failing \cup unreachable
                  => response.status = 200 /\ Len(Records) = Len(profiles)

C14_Witness ==
    /\ phase = "done"
    /\ SignupMetricAbsent
    /\ failing \cup unreachable = {}
    /\ \E i \in 1..Len(signupEvents) : signupEvents[i].profile = Str("p1")
    /\ run.signupsByProfile = EmptyMap
    /\ response.status = 200

\* C15: a lookup without its configuration or input makes no request: no
\* commerce request at all without the domain or the token, and no customer
\* or order request on behalf of a listed profile that has no email.
C15_NoRequestWithoutInput ==
    phase = "done" =>
        /\ ~ShopConfigured => \A r \in run.requests : r.endpoint \notin ShopEndpoints
        /\ \A i \in 1..Len(profiles) :
               profiles[i].email = NULL =>
                   \A r \in run.requests :
                       r.profile = profiles[i].id
                           => r.endpoint \notin {"customers", "orders"}

\* C16: without the key of the event store the run answers 500 with the
\* error of the missing key and an empty subscribers list, and makes no
\* request, neither to the event store nor to the commerce system.
C16_MissingKeyFailsFast ==
    (phase = "done" /\ ~env.KLAVIYO_PRIVATE_API_KEY) =>
        /\ response.status = 500
        /\ response.error = "KLAVIYO_PRIVATE_API_KEY not set"
        /\ response.subscribers = <<>>
        /\ run.requests = {}

C16_Witness ==
    /\ phase = "done"
    /\ ~env.KLAVIYO_PRIVATE_API_KEY /\ ShopConfigured
    /\ failing \cup unreachable = {}
    /\ \E i \in 1..Len(signupEvents) : signupEvents[i].profile = Str("p1")
    /\ response.status = 500
    /\ run.requests = {}

-----------------------------------------------------------------------------
(* The order lookup: one customer, signups of several products and times    *)

OrderSignups ==
    {SignupEvent(Str("p1"), Str("gid://shopify/Product/101"), signupDate, Str(Iso(1))) :
        signupDate \in {NULL, Str(Iso(2)), Str(Iso(3)), BadDate}}
    \cup {SignupEvent(Str("p1"), Str("202"), signupDate, Str(Iso(1))) :
              signupDate \in {NULL, Str(Iso(2)), BadDate}}

InitOrders ==
    /\ phase = "setup" /\ NormalizeIdle /\ ClassifierIdle /\ StepsIdle
    /\ profiles = <<Ann>>
    /\ signupEvents = <<>> /\ alertEvents = <<>> /\ emailEvents = <<>>
    /\ metrics = Metrics
    /\ failing = {} /\ unreachable = {} /\ env = Configured
    /\ run = NoRun /\ response = NoResponse /\ webhook = NoWebhook /\ backlog = 0

NextOrders ==
    \/ \E event \in OrderSignups : RecordSignup(event)
    \/ EndpointFails("orders")
    \/ GET

SpecOrders == InitOrders /\ [][NextOrders]_vars

\* the orders of the customer with this email
OrdersOf(email) == SelectSeq(ShopOrders, LAMBDA o : Str(o.email) = email)

\* a is a point in time at or after the point in time b
AtOrAfter(a, b) == Instant(a) >= 0 /\ Instant(b) >= 0 /\ Instant(a) >= Instant(b)

\* some order of the record's customer, created at or after the signup, has
\* a line item of the signup's product
OrderedAfter(record) ==
    \E i \in 1..Len(OrdersOf(record.email)) :
        LET order == OrdersOf(record.email)[i]
        IN  /\ AtOrAfter(order.created_at, record.signupDate)
            /\ \E j \in 1..Len(order.line_items) :
                   CanonicalForm(order.line_items[j].product_id)
                       = CanonicalForm(record.productId)

\* C17: when the orders are read, the record of a signup says ordered
\* exactly when some order of the customer created at or after the signup
\* timestamp has a line item of the signup's product (up to the canonical
\* form of the identifier): an order created before the signup never counts,
\* one created at the signup's instant does.
C17_OrderedAfterSignup ==
    (Succeeded /\ ShopConfigured /\ "orders" \notin failing \cup unreachable) =>
        \A k \in SignupRecords : Records[k].ordered = OrderedAfter(Records[k])

-----------------------------------------------------------------------------
(* The product lookup: signups of several products and variants             *)

ProductSignups ==
    {VariantSignupEvent(Str("p1"), Str("gid://shopify/Product/101"), variantId, Str(Iso(1))) :
        variantId \in {NULL, Str("12"), Str("gid://shopify/ProductVariant/12"), Str("99")}}
    \cup {VariantSignupEvent(Str("p1"), Str("303"), variantId, Str(Iso(2))) :
              variantId \in {NULL, Str("31"), Str("32")}}
    \cup {VariantSignupEvent(Str("p1"), Str("404"), Str("42"), Str(Iso(3))),
          VariantSignupEvent(Str("p1"), Str("505"), Str("12"), Str(Iso(3)))}

InitProducts ==
    /\ phase = "setup" /\ NormalizeIdle /\ ClassifierIdle /\ StepsIdle
    /\ profiles = <<Ann>>
    /\ signupEvents = <<>> /\ alertEvents = <<>> /\ emailEvents = <<>>
    /\ metrics = Metrics
    /\ failing = {} /\ unreachable = {} /\ env = Configured
    /\ run = NoRun /\ response = NoResponse /\ webhook = NoWebhook /\ backlog = 0

NextProducts ==
    \/ \E event \in ProductSignups : RecordSignup(event)
    \/ EndpointFails("products")
    \/ GET

SpecProducts == InitProducts /\ [][NextProducts]_vars

\* the products of the shop that a record names
ProductsOf(record) ==
    SelectSeq(ShopProducts, LAMBDA p : Str(p.id) = CanonicalForm(record.productId))

\* the stock of the first n variants
RECURSIVE Stock(_, _)
Stock(variants, n) ==
    IF n = 0 THEN 0
    ELSE Stock(variants, n - 1)
         + (IF variants[n].inventory_quantity = NULL THEN 0
            ELSE variants[n].inventory_quantity.n)

\* the variants that a record names
VariantsOf(record, variants) ==
    SelectSeq(variants, LAMBDA v : Str(Decimal(v.id.n)) = CanonicalForm(record.variantId))

\* the SKU of a variant; none when it is absent or empty
SkuOf(variant) == IF variant.sku \in {NULL, Str("")} THEN NULL ELSE variant.sku

\* the SKU of the matching variant when there is one, else of the first one
SkuByVariant(record, variants) ==
    IF VariantsOf(record, variants) # <<>> THEN SkuOf(VariantsOf(record, variants)[1])
    ELSE IF variants # <<>> THEN SkuOf(variants[1])
    ELSE NULL

\* the first SKU there is among the matching variant's and the first one's
SkuByPreference(record, variants) ==
    IF VariantsOf(record, variants) # <<>> /\ SkuOf(VariantsOf(record, variants)[1]) # NULL
    THEN SkuOf(VariantsOf(record, variants)[1])
    ELSE IF variants # <<>> THEN SkuOf(variants[1])
    ELSE NULL

\* the records whose product the shop has, in a run that read the products
ProductRecords ==
    IF Succeeded /\ ShopConfigured /\ "products" \notin failing \cup unreachable
    THEN {k \in SignupRecords : ProductsOf(Records[k]) # <<>>}
    ELSE {}

\* C18 as stated: the inventory of a record is the sum of the stock of the
\* product's variants, and its SKU is the SKU of the variant of the signup
\* when the product has that variant, else the SKU of the first variant,
\* else unknown.
C18_SkuOfMatchingVariant ==
    \A k \in ProductRecords :
        LET variants == ProductsOf(Records[k])[1].variants
        IN  /\ Records[k].inventory = Num(Stock(variants, Len(variants)))
            /\ Records[k].sku = SkuByVariant(Records[k], variants)

\* C18 amended: the inventory of a record is the sum of the stock of the
\* product's variants, and its SKU is the SKU of the variant of the signup
\* when the product has that variant and the variant has a SKU, else the SKU
\* of the first variant when it has one, else unknown.
C18_SkuByPreference ==
    \A k \in ProductRecords :
        LET variants == ProductsOf(Records[k])[1].variants
        IN  /\ Records[k].inventory = Num(Stock(variants, Len(variants)))
            /\ Records[k].sku = SkuByPreference(Records[k], variants)

C18_Witness ==
    \E k \in ProductRecords :
        /\ Records[k].productId = Str("404")
        /\ Records[k].variantId = Str("42")
        /\ Records[k].sku = Str("SKU-41")
        /\ Records[k].inventory = Num(1)

-----------------------------------------------------------------------------
(* inventory-webhook/route.js: POST, from the payload to the alert events   *)

\* undefined: the value of a property the payload does not have
UNDEFINED == NONE

\* the characters that \w matches
WordChars ==
    {SubSeq(UpperCase, i, i) : i \in 1..Len(UpperCase)}
    \cup {SubSeq(LowerCase, i, i) : i \in 1..Len(LowerCase)}
    \cup {Digits[i] : i \in 1..Len(Digits)} \cup {"_"}

GidPrefix == "gid://shopify/"

\* the first position from j on that holds no word character
RECURSIVE WordEnd(_, _)
WordEnd(str, j) ==
    IF j > Len(str) \/ SubSeq(str, j, j) \notin WordChars THEN j
    ELSE WordEnd(str, j + 1)

\* the position where a match of /gid:\/\/shopify\/\w+\// that starts at i
\* ends, 0 when none starts there
MatchEnd(str, i) ==
    LET j == i + Len(GidPrefix)
        e == WordEnd(str, j)
    IN  IF /\ j - 1 <= Len(str)
           /\ SubSeq(str, i, j - 1) = GidPrefix
           /\ e > j /\ e <= Len(str)
           /\ SubSeq(str, e, e) = "/"
        THEN e ELSE 0

\* str.replace(/gid:\/\/shopify\/\w+\//g, '')
RECURSIVE StripGid(_)
StripGid(str) ==
    LET starts == {i \in 1..Len(str) : MatchEnd(str, i) > 0}
    IN  IF starts = {} THEN str
        ELSE LET i == CHOOSE a \in starts : \A b \in starts : a <= b
             IN  SubSeq(str, 1, i - 1)
                 \o StripGid(SubSeq(str, MatchEnd(str, i) + 1, Len(str)))

\* normalize = (id) => id?.toString().replace(...)
normalize(id) ==
    IF id.k \in {"null", "none"} THEN UNDEFINED ELSE Str(StripGid(JsString(id)))

\* the test of one signup event in findSubscribers: by product or by variant
Matches(event, productId, variantId) ==
    LET eventProductId == normalize(event.props.ProductID)
        eventVariantId == normalize(event.props.VariantID)
    IN  \/ Truthy(eventProductId) /\ eventProductId = normalize(productId)
        \/ /\ Truthy(eventVariantId) /\ Truthy(normalize(variantId))
           /\ eventVariantId = normalize(variantId)

\* the loop of findSubscribers with an array in the place of the Set: every
\* matching event adds its profile
RECURSIVE MatchingProfiles_All(_, _, _, _, _)
MatchingProfiles_All(events, i, productId, variantId, profileIds) ==
    IF i > Len(events) THEN profileIds
    ELSE MatchingProfiles_All(events, i + 1, productId, variantId,
             IF Matches(events[i], productId, variantId) /\ Truthy(events[i].profile)
             THEN Append(profileIds, events[i].profile.s)
             ELSE profileIds)

\* the loop of findSubscribers that fills the Set profileIds
RECURSIVE MatchingProfiles(_, _, _, _, _)
MatchingProfiles(events, i, productId, variantId, profileIds) ==
    IF i > Len(events) THEN profileIds
    ELSE MatchingProfiles(events, i + 1, productId, variantId,
             IF /\ Matches(events[i], productId, variantId)
                /\ Truthy(events[i].profile)
                /\ \A j \in 1..Len(profileIds) : profileIds[j] # events[i].profile.s
             THEN Append(profileIds, events[i].profile.s)
             ELSE profileIds)

\* the loop of findSubscribers that fetches the profiles' emails
RECURSIVE FetchEmails(_, _)
FetchEmails(profileIds, i) ==
    IF i > Len(profileIds) THEN <<>>
    ELSE LET hits == SelectSeq(profiles, LAMBDA p : p.id = profileIds[i])
         IN  (IF NoData("profile") \/ Len(hits) = 0 \/ ~Truthy(hits[1].email) THEN <<>>
              ELSE <<[profileId |-> profileIds[i], email |-> hits[1].email]>>)
             \o FetchEmails(profileIds, i + 1)

findSubscribers(productId, variantId) ==
    IF klaviyoHeadersThrows \/ NoData("metrics") THEN <<>>
    ELSE LET signupMetric == FindMetric(metrics, "back in stock signup")
         IN  IF signupMetric = NULL THEN <<>>
             ELSE IF NoData(EventsEndpoint(signupMetric.s)) THEN <<>>
             ELSE FetchEmails(MatchingProfiles(EventsResponse(signupMetric.s).data, 1,
                                               productId, variantId, <<>>), 1)

\* the endpoints of the event store that findSubscribers asks
SubscriberRequests(productId, variantId) ==
    IF klaviyoHeadersThrows THEN {}
    ELSE {"metrics"} \cup
         (IF NoData("metrics") \/ FindMetric(metrics, "back in stock signup") = NULL THEN {}
          ELSE LET signupMetric == FindMetric(metrics, "back in stock signup")
               IN  {"events"} \cup
                   (IF \/ NoData(EventsEndpoint(signupMetric.s))
                       \/ MatchingProfiles(EventsResponse(signupMetric.s).data, 1,
                                           productId, variantId, <<>>) = <<>>
                    THEN {} ELSE {"profile"}))

\* createAlertEvent: true when the event store accepts the event
createAlertEvent == ~klaviyoHeadersThrows /\ ~NoData("create")

NoDetails == [found |-> FALSE, id |-> NULL, inventory |-> NULL]

\* getProductDetails: variantId.includes is called before the try block
getProductDetails(variantId) ==
    IF ~env.SHOPIFY_STORE_DOMAIN \/ ~env.SHOPIFY_ADMIN_TOKEN \/ ~Truthy(variantId)
    THEN Returned(NoDetails)
    ELSE IF variantId.k # "string" THEN Threw
    ELSE IF NoData("variants") THEN Returned(NoDetails)
    ELSE LET numericId == NumericId(variantId)
             owners == SelectSeq(ShopProducts,
                           LAMBDA p : \E i \in 1..Len(p.variants) :
                                          JsString(p.variants[i].id) = numericId.s)
         IN  IF Len(owners) = 0 \/ NoData("products") THEN Returned(NoDetails)
             ELSE Returned([found |-> TRUE, id |-> Str(owners[1].id),
                            inventory |-> Num(SumInventory(owners[1].variants, 1))])

\* a ?? b
Nullish(v) == v.k \in {"null", "none"}

\* inventory <= 0, on undefined, null or a number
NotPositive(inventory) ==
    CASE inventory.k = "none" -> FALSE
      [] inventory.k = "null" -> TRUE
      [] inventory.k = "number" -> inventory.n <= 0
      [] OTHER -> inventory.s \in {"", "0"}

\* a payload: the properties POST reads, UNDEFINED when the payload lacks one
Body(product_id, id, variant_id, inventory_quantity, quantity) ==
    [product_id |-> product_id, productId |-> UNDEFINED, id |-> id,
     variant_id |-> variant_id, variantId |-> UNDEFINED,
     inventory_quantity |-> inventory_quantity, inventoryQuantity |-> UNDEFINED,
     quantity |-> quantity]

\* POST up to the loop that creates the alerts: the response status, the
\* product alerted for and the subscribers found
Handle(body) ==
    LET givenId == OrElse(OrElse(body.product_id, body.productId), body.id)
        given == OrElse(OrElse(body.inventory_quantity, body.inventoryQuantity),
                        body.quantity)
        variantId == OrElse(body.variant_id, body.variantId)
        lookup == ~Truthy(givenId) /\ Truthy(variantId)
        called == IF lookup THEN getProductDetails(variantId) ELSE Returned(NoDetails)
        details == IF called.threw THEN NoDetails ELSE called.value
        productId == IF details.found THEN details.id ELSE givenId
        inventory == IF details.found /\ Nullish(given) THEN details.inventory ELSE given
        none == [status |-> 200, productId |-> productId, details |-> details,
                 subscribers |-> <<>>, events |-> <<>>, requests |-> {}]
    IN  IF called.threw THEN [none EXCEPT !.status = 500]
        ELSE IF ~Truthy(productId) THEN [none EXCEPT !.status = 400]
        ELSE IF NotPositive(inventory) THEN none
        ELSE [none EXCEPT
                 !.subscribers = findSubscribers(productId, variantId),
                 !.requests = SubscriberRequests(productId, variantId),
                 !.events = SelectSeq(signupEvents,
                                LAMBDA e : Matches(e, productId, variantId))]

\* the listing after the store has recorded the events from the i-th on
RECURSIVE ListedAll(_, _, _)
ListedAll(events, new, i) ==
    IF i > Len(new) THEN events
    ELSE ListedAll(Listed(events, new[i]), new, i + 1)

\* the handler of POST /api/inventory-webhook, at the day now
POST(body, now) ==
    /\ phase = "setup"
    /\ EventCount < MaxEvents
    /\ \A i \in 1..Len(signupEvents) : Rank(signupEvents[i]) < DateParse(Iso(now)).t
    /\ \A i \in 1..Len(alertEvents) : Rank(alertEvents[i]) < DateParse(Iso(now)).t
    /\ \E handled \in {Handle(body)} :
       \E sent \in {IF createAlertEvent THEN handled.subscribers ELSE <<>>} :
       \E created \in {[i \in 1..Len(sent) |->
                          AlertEvent(Str(sent[i].profileId), handled.productId,
                                     Str(Iso(now)))]} :
           /\ alertEvents' = ListedAll(alertEvents, created, 1)
           /\ webhook' =
                  [calls |-> webhook.calls + 1,
                   status |-> handled.status,
                   alertsSent |-> Len(sent),
                   subscribersFound |-> Len(handled.subscribers),
                   body |-> body,
                   details |-> handled.details,
                   created |-> created,
                   requests |-> handled.requests \cup
                                (IF Len(handled.subscribers) > 0 /\ ~klaviyoHeadersThrows
                                 THEN {"create"} ELSE {}),
                   log |-> webhook.log \cup
                           {[signup |-> handled.events[j], alert |-> created[i]] :
                                <<i, j>> \in {x \in (1..Len(created)) \X (1..Len(handled.events)) :
                                                 handled.events[x[2]].profile
                                                     = created[x[1]].profile}}]
    /\ UNCHANGED <<stepVars, backlog, phase, profiles, metrics, signupEvents, emailEvents, failing, unreachable,
                   env, run, response, normalizeVars, classifierVars>>

-----------------------------------------------------------------------------
(* Signups, restocks handled by the webhook, and runs of the pipeline       *)

HookSignups ==
    {VariantSignupEvent(Str("p1"), Str("gid://shopify/Product/101"), NULL, Str(Iso(1))),
     VariantSignupEvent(Str("p1"), Str("101"),
                        Str("gid://shopify/ProductVariant/12"), Str(Iso(1))),
     VariantSignupEvent(Str("p1"), NULL, Str("12"), Str(Iso(1))),
     VariantSignupEvent(Str("p1"), Num(101), NULL, Str(Iso(1))),
     VariantSignupEvent(Str("p2"), Str("101"), NULL, Str(Iso(1)))}

Payloads ==
    {Body(Str("101"), UNDEFINED, UNDEFINED, Num(5), UNDEFINED),
     Body(Str("gid://shopify/Product/101"), UNDEFINED,
          Str("gid://shopify/ProductVariant/12"), Num(5), UNDEFINED),
     Body(Str("101"), UNDEFINED, UNDEFINED, Num(0), UNDEFINED),
     Body(Str("101"), UNDEFINED, UNDEFINED, Num(-1), UNDEFINED),
     Body(Num(101), UNDEFINED, UNDEFINED, UNDEFINED, UNDEFINED),
     Body(Str("101"), UNDEFINED, UNDEFINED, Num(0), Num(0)),
     Body(UNDEFINED, UNDEFINED, Str("12"), Num(5), UNDEFINED),
     Body(UNDEFINED, UNDEFINED, Num(12), Num(5), UNDEFINED),
     Body(UNDEFINED, UNDEFINED, UNDEFINED, Num(5), UNDEFINED),
     Body(UNDEFINED, Str("555"), Str("12"), Num(2), UNDEFINED)}

HookEndpoints == {"create", "profile", "variants"}

InitWebhook ==
    /\ phase = "setup" /\ NormalizeIdle /\ ClassifierIdle /\ StepsIdle
    /\ profiles = <<Ann, Bob>>
    /\ signupEvents = <<>> /\ alertEvents = <<>> /\ emailEvents = <<>>
    /\ metrics = Metrics
    /\ failing = {} /\ unreachable = {} /\ env = Configured
    /\ run = NoRun /\ response = NoResponse /\ webhook = NoWebhook /\ backlog = 0

NextWebhook ==
    \/ \E event \in HookSignups : RecordSignup(event)
    \/ \E endpoint \in HookEndpoints : EndpointFails(endpoint)
    \/ \E body \in Payloads : POST(body, 2)
    \/ GET

SpecWebhook == InitWebhook /\ [][NextWebhook]_vars

\* the quantity a payload gives: the first of its quantity properties
GivenQuantity(body) ==
    IF body.inventory_quantity # UNDEFINED THEN body.inventory_quantity
    ELSE IF body.inventoryQuantity # UNDEFINED THEN body.inventoryQuantity
    ELSE body.quantity

\* the quantity the last call resolved: the payload's, else the one of the
\* product looked up, else none
ResolvedInventory ==
    IF GivenQuantity(webhook.body) # UNDEFINED THEN GivenQuantity(webhook.body)
    ELSE IF webhook.details.found THEN webhook.details.inventory
    ELSE UNDEFINED

\* C19: a call of the webhook whose resolved inventory is 0, negative or
\* absent creates no alert event and answers alertsSent 0.
C19_AlertsOnlyWhenPositive ==
    (/\ webhook.calls > 0
     /\ ~(ResolvedInventory.k = "number" /\ ResolvedInventory.n > 0))
        => webhook.alertsSent = 0 /\ webhook.created = <<>>

\* the record is the one of the signup event
RecordOfSignup(record, event) ==
    /\ Str(record.profileId) = event.profile
    /\ record.productId = event.props.ProductID
    /\ record.variantId = event.props.VariantID
    /\ record.signupDate = SignupTimestamp(event)

\* C20: once the webhook has matched a signup, by product or by variant and
\* in whatever identifier format, and has created the alert event for it,
\* every successful run that reads the signup and alert events says
\* alertSent for the record of that signup.
C20_AlertedSignupIsReported ==
    (Succeeded /\ {"metrics", "signups", "alerts"} \cap (failing \cup unreachable) = {}) =>
        \A entry \in webhook.log :
            \A k \in 1..Len(Records) :
                RecordOfSignup(Records[k], entry.signup) => Records[k].alertSent

-----------------------------------------------------------------------------
(* GET taken step by step: a call is in flight from the step that issues it *)
(* to the step in which its answer arrives, and answers arrive in any       *)
(* order.  The store does not change while the handler runs, so an answer   *)
(* is the one the store gives in the state of the step.                     *)

Call(task, of) == [task |-> task, of |-> of]

Lookups == {"customer", "product", "order"}

\* the calls in flight that are lookups of the loop, and those that are
\* fetches of the two Promise.all
LookupsPending(pending) == {c \in pending : c.task \in Lookups}
FetchesPending(pending) == {c \in pending : c.task \notin Lookups}

\* the next statement running without waiting for the call before it
Awaited_NoWait(pending) == TRUE

\* await: the statement after it runs once the awaited call has settled
Awaited(pending) == LookupsPending(pending) = {}

\* the join with the first settled task taken for all of them
AllSettled_Any(settled, tasks) == tasks \cap settled # {}

\* await Promise.all([...]): every task of the array has settled
AllSettled(settled, tasks) == tasks \subseteq settled

\* a task of checkReceivedBisEmails that sets the Map to its own result
TaskWrite_Overwrite(byProfile, profileId, metricId) ==
    LET res == EmailsResponse(metricId, profileId)
    IN  IF EventsEndpoint(metricId) \in unreachable \/ ~res.ok THEN byProfile
        ELSE CollectEmailAlerts(res.data, 1, profileId, EmptyMap)

\* what the task of one profile leaves in byProfile, the Map all the tasks of
\* checkReceivedBisEmails share, when its answer arrives
TaskWrite(byProfile, profileId, metricId) ==
    LET res == EmailsResponse(metricId, profileId)
    IN  IF EventsEndpoint(metricId) \in unreachable \/ ~res.ok THEN byProfile
        ELSE CollectEmailAlerts(res.data, 1, profileId, byProfile)

\* the maps of the run as the handler holds them
RunOf(f) ==
    [signupsByProfile |-> f.signupsByProfile, bisAlertsByProfile |-> f.bisAlertsByProfile,
     emailAlertsByProfile |-> f.byProfile, alertsByProfile |-> f.alertsByProfile,
     requests |-> {}]

\* the handler goes on: nothing is answered yet
Continue(f) == flight' = f /\ UNCHANGED <<phase, run, response>>

\* an exception reaches the catch block of GET; what was thrown after the
\* response is lost
Fail(f, message) ==
    IF flight.pc = "done" THEN Continue(f)
    ELSE /\ flight' = [f EXCEPT !.pc = "done"]
         /\ phase' = "done"
         /\ run' = RunOf(f)
         /\ response' = Failure(message)

\* the kind of fetch a call serves
Kind(call) ==
    IF call.task \in {"signups.metrics", "signups.events"} THEN "signups" ELSE call.task

\* the pairs of kinds of fetch that were in flight together so far
Mix(f) ==
    [f EXCEPT !.mix = @ \cup {{Kind(pair[1]), Kind(pair[2])} :
                                 pair \in {p \in FetchesPending(f.pending)
                                                    \X FetchesPending(f.pending) :
                                               Kind(p[1]) # Kind(p[2])}}]

Settle(f, call, task) ==
    [f EXCEPT !.pending = @ \ {call}, !.settled = @ \cup {task}]

\* GET is called: the three calls of the first Promise.all are issued
Begin ==
    /\ phase = "setup" /\ flight.pc = "idle"
    /\ IF klaviyoHeadersThrows
       THEN /\ flight' = [flight EXCEPT !.pc = "done"]
            /\ phase' = "done"
            /\ run' = NoRun
            /\ response' = Failure("KLAVIYO_PRIVATE_API_KEY not set")
       ELSE /\ flight' = Mix([flight EXCEPT !.pc = "first",
                                  !.pending = {Call("metricIds", 0), Call("profiles", 0),
                                               Call("signups.metrics", 0)}])
            /\ phase' = "running"
            /\ UNCHANGED <<run, response>>
    /\ UNCHANGED <<storeVars, normalizeVars, classifierVars, dash>>

\* getMetricIds: the answer of /metrics/ arrives
AnswerMetricIds ==
    LET call == Call("metricIds", 0)
    IN  /\ call \in flight.pending
        /\ IF getMetricIdsThrows
           THEN Fail([flight EXCEPT !.pending = @ \ {call}], "fetch failed")
           ELSE Continue([Settle(flight, call, "metricIds") EXCEPT !.metricIds = getMetricIds])
        /\ UNCHANGED <<storeVars, normalizeVars, classifierVars, dash>>

\* the answer of the profile listing arrives
AnswerProfiles ==
    LET call == Call("profiles", 0)
        profilesRes == ProfilesResponse
    IN  /\ call \in flight.pending
        /\ IF "profiles" \in unreachable
           THEN Fail([flight EXCEPT !.pending = @ \ {call}], "fetch failed")
           ELSE Continue([Settle(flight, call, "profiles") EXCEPT
                              !.profilesOk = profilesRes.ok,
                              !.profileList = IF profilesRes.ok THEN profilesRes.data
                                              ELSE <<>>])
        /\ UNCHANGED <<storeVars, normalizeVars, classifierVars, dash>>

\* getSignupEvents: the answer of /metrics/ arrives, and the events of the
\* signup metric are asked for
AnswerSignupMetrics ==
    LET call == Call("signups.metrics", 0)
        metricsRes == MetricsResponse
    IN  /\ call \in flight.pending
        /\ IF \/ "metrics" \in unreachable
              \/ ~metricsRes.ok
              \/ FindMetric(metricsRes.data, "back in stock signup") = NULL
           THEN Continue(Settle(flight, call, "signups"))
           ELSE Continue(Mix([flight EXCEPT
                              !.pending = (@ \ {call}) \cup {Call("signups.events", 0)}]))
        /\ UNCHANGED <<storeVars, normalizeVars, classifierVars, dash>>

\* getSignupEvents: the answer of /events/ arrives
AnswerSignupEvents ==
    LET call == Call("signups.events", 0)
        signupMetric == FindMetric(MetricsResponse.data, "back in stock signup")
        eventsRes == EventsResponse(signupMetric.s)
    IN  /\ call \in flight.pending
        /\ Continue([Settle(flight, call, "signups") EXCEPT
                         !.signupsByProfile =
                             IF EventsEndpoint(signupMetric.s) \in unreachable \/ ~eventsRes.ok
                             THEN EmptyMap
                             ELSE GroupSignups(eventsRes.data, 1, EmptyMap)])
        /\ UNCHANGED <<storeVars, normalizeVars, classifierVars, dash>>

\* the first Promise.all is settled: the profiles are read, and the calls of
\* the second Promise.all are issued
JoinFirst ==
    /\ flight.pc = "first"
    /\ AllSettled(flight.settled, {"metricIds", "profiles", "signups"})
    /\ IF ~flight.profilesOk
       THEN Fail(flight, "Klaviyo API error")
       ELSE LET count == Len(flight.profileList)
                noAlerts == ~Truthy(flight.metricIds.bisAlert)
                noEmails == ~Truthy(flight.metricIds.receivedEmail) \/ count = 0
            IN  Continue(Mix([flight EXCEPT
                    !.pc = "second",
                    !.pending = @ \cup (IF noAlerts THEN {} ELSE {Call("alerts", 0)})
                                  \cup (IF noEmails THEN {}
                                        ELSE {Call("emails", k) : k \in 1..count}),
                    !.settled = @ \cup (IF noAlerts THEN {"alerts"} ELSE {})
                                  \cup (IF noEmails THEN {"emails"} ELSE {})]))
    /\ UNCHANGED <<storeVars, normalizeVars, classifierVars, dash>>

\* getBisAlertEvents: the answer of /events/ arrives
AnswerAlerts ==
    LET call == Call("alerts", 0)
    IN  /\ call \in flight.pending
        /\ Continue([Settle(flight, call, "alerts") EXCEPT
                         !.bisAlertsByProfile = getBisAlertEvents(flight.metricIds.bisAlert)])
        /\ UNCHANGED <<storeVars, normalizeVars, classifierVars, dash>>

\* checkReceivedBisEmails: the answer for the k-th profile arrives, and its
\* task adds what it found to byProfile; the task that is the last to end
\* settles the call
AnswerEmails(k) ==
    LET call == Call("emails", k)
        others == {c \in flight.pending : c.task = "emails" /\ c.of # k}
        written == TaskWrite(flight.byProfile, flight.profileList[k].id,
                             flight.metricIds.receivedEmail.s)
    IN  /\ call \in flight.pending
        /\ Continue([flight EXCEPT
               !.pending = @ \ {call},
               !.settled = IF others = {} THEN @ \cup {"emails"} ELSE @,
               !.byProfile = written,
               !.shared = IF written # flight.byProfile /\ others # {}
                          THEN @ \cup {k} ELSE @])
        /\ UNCHANGED <<storeVars, normalizeVars, classifierVars, dash>>

\* the second Promise.all is settled: both alert sources are merged, and the
\* loop over the profiles starts
JoinSecond ==
    /\ flight.pc = "second"
    /\ AllSettled(flight.settled, {"alerts", "emails"})
    /\ Continue([flight EXCEPT
           !.pc = IF Len(flight.profileList) = 0 THEN "sort" ELSE "loop",
           !.alertsByProfile = MergeAlerts(flight.bisAlertsByProfile, flight.byProfile),
           !.i = 1, !.j = 1, !.stage = "customer"])
    /\ UNCHANGED <<storeVars, normalizeVars, classifierVars, dash>>

\* the locals of the turn of the loop the handler is in
LoopProfile == flight.profileList[flight.i]
LoopEmail == OrElse(LoopProfile.email, Str("N/A"))
LoopSignups == MapGetOrEmpty(flight.signupsByProfile, LoopProfile.id)
LoopAlerts == MapGetOrEmpty(flight.alertsByProfile, LoopProfile.id)
LoopSignup == LoopSignups[flight.j]

\* the most lookups in flight at one time so far
Peak(f) ==
    IF Cardinality(LookupsPending(f.pending)) > f.peak
    THEN [f EXCEPT !.peak = Cardinality(LookupsPending(f.pending))]
    ELSE f

\* the loop calls the next lookup: getShopifyCustomerId once for the profile,
\* then getProductData and checkIfOrdered for each signup; alertSent is
\* decided before getProductData is called
StartLookup ==
    /\ flight.pc = "loop"
    /\ flight.stage \in Lookups
    /\ Awaited(flight.pending)
    /\ CASE flight.stage = "customer" ->
              Continue(Peak([flight EXCEPT
                  !.pending = @ \cup {Call("customer", flight.i)},
                  !.stage = IF Len(LoopSignups) > 0 THEN "product" ELSE "push"]))
         [] flight.stage = "product" ->
              IF getProductData(LoopSignup.productId, LoopSignup.variantId).threw
              THEN Fail(flight, "productId.includes is not a function")
              ELSE Continue(Peak([flight EXCEPT
                       !.alertSent = AlertSent(LoopAlerts, LoopSignup),
                       !.pending = @ \cup {Call("product", flight.i)},
                       !.stage = "order"]))
         [] flight.stage = "order" ->
              IF checkIfOrdered(LoopEmail, LoopSignup.productId, LoopSignup.signupDate).threw
              THEN Fail(flight, "productId.includes is not a function")
              ELSE Continue(Peak([flight EXCEPT
                       !.pending = @ \cup {Call("order", flight.i)},
                       !.stage = "push"]))
    /\ UNCHANGED <<storeVars, normalizeVars, classifierVars, dash>>

\* a lookup returns
FinishLookup(call) ==
    /\ call \in LookupsPending(flight.pending)
    /\ CASE call.task = "customer" ->
              Continue([flight EXCEPT
                  !.pending = @ \ {call},
                  !.shopifyCustomerId = getShopifyCustomerId(LoopEmail)])
         [] call.task = "product" ->
              Continue([flight EXCEPT
                  !.pending = @ \ {call},
                  !.product = getProductData(LoopSignup.productId,
                                             LoopSignup.variantId).value])
         [] call.task = "order" ->
              Continue([flight EXCEPT
                  !.pending = @ \ {call},
                  !.ordered = checkIfOrdered(LoopEmail, LoopSignup.productId,
                                             LoopSignup.signupDate).value])
    /\ UNCHANGED <<storeVars, normalizeVars, classifierVars, dash>>

\* subscribers.push(...), and the loops go on to the next signup or profile
Push ==
    /\ flight.pc = "loop"
    /\ flight.stage = "push"
    /\ LookupsPending(flight.pending) = {}
    /\ LET record ==
               IF Len(LoopSignups) > 0
               THEN [SignupRecord(LoopProfile, LoopSignup, LoopAlerts,
                                  flight.shopifyCustomerId)
                         EXCEPT !.alertSent = flight.alertSent,
                                !.inventory = flight.product.inventory,
                                !.sku = flight.product.sku,
                                !.ordered = flight.ordered]
               ELSE FallbackRecord(LoopProfile, flight.shopifyCustomerId)
           pushed == [flight EXCEPT !.subscribers = Append(@, record)]
       IN  IF flight.j < Len(LoopSignups)
           THEN Continue([pushed EXCEPT !.j = @ + 1, !.stage = "product"])
           ELSE IF flight.i < Len(flight.profileList)
           THEN Continue([pushed EXCEPT !.i = @ + 1, !.j = 1, !.stage = "customer"])
           ELSE Continue([pushed EXCEPT !.pc = "sort"])
    /\ UNCHANGED <<storeVars, normalizeVars, classifierVars, dash>>

\* the records are sorted and answered
Respond ==
    /\ flight.pc = "sort"
    /\ flight' = [flight EXCEPT !.pc = "done"]
    /\ phase' = "done"
    /\ run' = RunOf(flight)
    /\ response' = [status |-> 200, subscribers |-> Sort(flight.subscribers), error |-> ""]
    /\ UNCHANGED <<storeVars, normalizeVars, classifierVars, dash>>

StepSignups ==
    {SignupEvent(Str("p1"), Str("gid://shopify/Product/101"), NULL, Str(Iso(1))),
     SignupEvent(Str("p1"), Str("404"), NULL, Str(Iso(3))),
     SignupEvent(Str("p2"), Str("202"), NULL, Str(Iso(1)))}

StepAlerts == {AlertEvent(Str("p1"), Str("101"), Str(Iso(2)))}

StepEmails ==
    {EmailEvent(Str("p1"), Str("Back in stock"), NULL, Str(Iso(4))),
     EmailEvent(Str("p2"), Str("Back in stock"), NULL, Str(Iso(2)))}

InitSteps ==
    /\ phase = "setup" /\ NormalizeIdle /\ ClassifierIdle /\ StepsIdle
    /\ profiles = <<Ann, Bob>>
    /\ signupEvents = <<>> /\ alertEvents = <<>> /\ emailEvents = <<>>
    /\ metrics = Metrics
    /\ failing = {} /\ unreachable = {} /\ env = Configured
    /\ run = NoRun /\ response = NoResponse /\ webhook = NoWebhook /\ backlog = 0

NextSteps ==
    \/ \E event \in StepSignups : RecordSignup(event)
    \/ \E event \in StepAlerts : RecordAlert(event)
    \/ \E event \in StepEmails : RecordEmail(event)
    \/ EndpointFails("profiles")
    \/ \E endpoint \in {"profiles", "emails"} : EndpointUnreachable(endpoint)
    \/ Begin
    \/ AnswerMetricIds
    \/ AnswerProfiles
    \/ AnswerSignupMetrics
    \/ AnswerSignupEvents
    \/ JoinFirst
    \/ AnswerAlerts
    \/ \E k \in 1..Len(flight.profileList) : AnswerEmails(k)
    \/ JoinSecond
    \/ StartLookup
    \/ \E call \in flight.pending : FinishLookup(call)
    \/ Push
    \/ Respond

SpecSteps == InitSteps /\ [][NextSteps]_vars

-----------------------------------------------------------------------------
(* Claims about the order of the calls of one run                           *)

\* the run answered with records, one of them of a signup for which the
\* product and the order lookup both asked the commerce system
EnrichedRun ==
    /\ flight.pc = "done"
    /\ response.status = 200
    /\ \E k \in 1..Len(Records) :
           /\ getProductDataRequests(Records[k].productId, Records[k].variantId) # {}
           /\ checkIfOrderedRequests(Records[k].email, Records[k].productId) # {}

PastFirstJoin ==
    \/ flight.pc \in {"second", "loop", "sort"}
    \/ flight.pc = "done" /\ response.status = 200

\* the task of the k-th profile was started and has ended
EmailTaskEnded(k) ==
    /\ PastFirstJoin
    /\ Truthy(flight.metricIds.receivedEmail)
    /\ Call("emails", k) \notin flight.pending

\* what the task of the k-th profile finds, taken alone
OwnResult(k) ==
    MapGetOrEmpty(TaskWrite(EmptyMap, flight.profileList[k].id,
                            flight.metricIds.receivedEmail.s),
                  flight.profileList[k].id)

\* C22, as stated: no state shared by concurrently running tasks is written
\* by them; no task writes into a Map while another task that writes into the
\* same Map is still running.
C22_NoSharedWrites == flight.shared = {}

\* C22, amended: the per-profile tasks of the message check write into the
\* one Map they share, each under the key of its own profile and when its own
\* answer has arrived; the entry of a profile is what its task found taken
\* alone, whatever the order of the answers, a task still running has left no
\* entry, and the caller merges the Map only once no fetch is in flight.
C22_SharedMapOwnKeys ==
    /\ \A k \in 1..Len(flight.profileList) :
           MapGetOrEmpty(flight.byProfile, flight.profileList[k].id) =
               IF EmailTaskEnded(k) THEN OwnResult(k) ELSE <<>>
    /\ \A n \in 1..Len(flight.byProfile) :
           \E k \in 1..Len(flight.profileList) :
               flight.byProfile[n].key = flight.profileList[k].id
    /\ flight.alertsByProfile # EmptyMap => FetchesPending(flight.pending) = {}

C22_Witness ==
    /\ flight.pc = "done" /\ response.status = 200
    /\ flight.shared # {}
    /\ Len(flight.byProfile) = 2
    /\ Len(flight.alertsByProfile) = 2

\* the fetches of the first Promise.all and those of the second
FirstGroup == {"metricIds", "profiles", "signups"}
SecondGroup == {"alerts", "emails"}

\* the run answered with records after it asked for the events of all three
\* metrics
FetchedAll ==
    /\ flight.pc = "done" /\ response.status = 200
    /\ Truthy(flight.metricIds.bisAlert) /\ Truthy(flight.metricIds.receivedEmail)
    /\ FindMetric(MetricsResponse.data, "back in stock signup") # NULL

\* C23, as stated: the fetches of the signup events, of the explicit alerts,
\* of the message-received events and of the profile list execute
\* concurrently with one another, so that in a run that made all of them the
\* fetches of every two kinds were in flight together at some time; and no
\* record is built and no alertSent decided while one of them is in flight.
C23_AllFetchesConcurrent ==
    /\ FetchedAll =>
           \A a, b \in {"signups", "profiles", "alerts", "emails"} :
               a # b => {a, b} \in flight.mix
    /\ flight.subscribers # <<>> => FetchesPending(flight.pending) = {}

\* C23, amended: the fetches run in two groups, each joined before the
\* handler goes on: the metric ids, the profile list and the signup events
\* first; then, once all three have settled, the explicit alerts and the
\* per-profile message checks.  Fetches of different groups are never in
\* flight together.  The loop that builds the records and decides alertSent
\* runs only when no fetch is in flight, and while one is in flight no
\* record is built and none is answered.
C23_JoinedInTwoGroups ==
    /\ (\/ flight.pc \in {"loop", "sort"}
        \/ flight.subscribers # <<>>
        \/ flight.alertSent
        \/ flight.peak > 0) => FetchesPending(flight.pending) = {}
    /\ FetchesPending(flight.pending) # {} => response.subscribers = <<>>
    /\ \A a, b \in FetchesPending(flight.pending) :
           Kind(a) \in FirstGroup <=> Kind(b) \in FirstGroup
    /\ \A pair \in flight.mix : pair \subseteq FirstGroup \/ pair \subseteq SecondGroup

C23_Witness ==
    /\ FetchedAll
    /\ {"profiles", "signups"} \in flight.mix
    /\ {"alerts", "emails"} \in flight.mix
    /\ \E k \in 1..Len(Records) : Records[k].alertSent

-----------------------------------------------------------------------------
(* Claims about the fetch of the events of a metric                         *)

\* the store names the signup metric and holds signups of a listed profile
SignupsHeld ==
    /\ ~SignupMetricAbsent
    /\ "metrics" \notin failing
    /\ \E i \in 1..Len(signupEvents) : signupEvents[i].profile = Str("p1")

\* C24, as stated: the fetch of the events of a metric gives an empty result
\* when the answer has a non-success status, and fails when the request fails
\* in transport: the failure is surfaced (nothing between the fetch and the
\* catch block of GET catches it, so the run fails), not turned into an empty
\* result.
C24_TransportFailureSurfaced ==
    (phase = "done" /\ ReadsProfiles) =>
        /\ "signups" \in failing => run.signupsByProfile = EmptyMap
        /\ "alerts" \in failing => run.bisAlertsByProfile = EmptyMap
        /\ (SignupsHeld /\ "signups" \in unreachable) => response.status # 200

\* C24, amended: the fetch of the events of a metric never fails: it gives an
\* empty result when the answer has a non-success status and also when the
\* request fails in transport, and a run in which only these fetches fail
\* answers 200.
C24_EventFetchNeverFails ==
    (phase = "done" /\ ReadsProfiles) =>
        /\ "signups" \in failing \cup unreachable => run.signupsByProfile = EmptyMap
        /\ "alerts" \in failing \cup unreachable => run.bisAlertsByProfile = EmptyMap
        /\ (/\ failing \cup unreachable \subseteq {"signups", "alerts"}
            /\ "signups" \in failing \cup unreachable) => response.status = 200

C24_Witness ==
    /\ phase = "done" /\ ReadsProfiles /\ SignupsHeld
    /\ unreachable = {"signups"} /\ failing = {}
    /\ run.signupsByProfile = EmptyMap
    /\ response.status = 200
    /\ Len(Records) = Len(profiles)

-----------------------------------------------------------------------------
(* Specification of the listings: the store holds, before the events the    *)
(* model records, a number of newer events, so that a listing spans more    *)
(* than the page the handler asks for.                                      *)

Backlogs == {0, EmailsPageSize - 1, EmailsPageSize, EventsPageSize - 1, EventsPageSize}

PagingSignups ==
    {SignupEvent(Str("p1"), Str("101"), NULL, Str(Iso(1))),
     SignupEvent(Str("p1"), Str("202"), NULL, Str(Iso(3))),
     SignupEvent(Str("p2"), Str("101"), NULL, Str(Iso(1)))}

PagingAlerts ==
    {AlertEvent(Str("p1"), Str("101"), Str(Iso(2))),
     AlertEvent(Str("p2"), Str("101"), Str(Iso(4)))}

PagingEmails ==
    {EmailEvent(Str("p1"), Str("Back in stock"), NULL, Str(Iso(4))),
     EmailEvent(Str("p1"), NULL, Str("Now available"), Str(Iso(2)))}

InitPaging ==
    /\ phase = "setup" /\ NormalizeIdle /\ ClassifierIdle /\ StepsIdle
    /\ profiles = <<Ann, Bob>>
    /\ signupEvents = <<>> /\ alertEvents = <<>> /\ emailEvents = <<>>
    /\ metrics = Metrics
    /\ backlog \in Backlogs
    /\ failing = {} /\ unreachable = {} /\ env = KeyOnly
    /\ run = NoRun /\ response = NoResponse /\ webhook = NoWebhook

NextPaging ==
    \/ \E event \in PagingSignups : RecordSignup(event)
    \/ \E event \in PagingAlerts : RecordAlert(event)
    \/ \E event \in PagingEmails : RecordEmail(event)
    \/ GET

SpecPaging == InitPaging /\ [][NextPaging]_vars

\* the events of a listing that are of a profile
EventsOf(events, profileId) == SelectSeq(events, LAMBDA e : e.profile = Str(profileId))

\* the message events of a profile that the classifier takes for a notice
NoticesOf(profileId) ==
    SelectSeq(EventsOf(emailEvents, profileId),
              LAMBDA e : isBisEmailSubject(OrElse(e.props.Subject, Str("")),
                                           OrElse(e.props.PreviewText, Str(""))))

\* C25: the signup index and the alert index hold every event the store
\* holds for the metric (and the profile asked for), however many pages the
\* listing spans: for each listed profile as many signups, explicit alerts
\* and message alerts as the store holds events of them.
C25_EveryEventIndexed ==
    (phase = "done" /\ response.status = 200) =>
        \A i \in 1..Len(profiles) :
            LET pid == profiles[i].id
            IN  /\ Len(MapGetOrEmpty(run.signupsByProfile, pid))
                       = Len(EventsOf(signupEvents, pid))
                /\ Len(MapGetOrEmpty(run.bisAlertsByProfile, pid))
                       = Len(EventsOf(alertEvents, pid))
                /\ Len(MapGetOrEmpty(run.emailAlertsByProfile, pid))
                       = Len(NoticesOf(pid))

\* what holds instead: the indexes hold the events of the first page of each
\* listing, so every event when the listing is no longer than the page
FirstPageIndexed ==
    (phase = "done" /\ response.status = 200) =>
        \A i \in 1..Len(profiles) :
            LET pid == profiles[i].id
            IN  /\ Len(MapGetOrEmpty(run.signupsByProfile, pid))
                       = Len(EventsOf(FirstPage(signupEvents, "p9", EventsPageSize), pid))
                /\ Len(MapGetOrEmpty(run.bisAlertsByProfile, pid))
                       = Len(EventsOf(FirstPage(alertEvents, "p9", EventsPageSize), pid))
                /\ backlog + Len(signupEvents) <= EventsPageSize
                       => Len(MapGetOrEmpty(run.signupsByProfile, pid))
                              = Len(EventsOf(signupEvents, pid))
                /\ backlog + Len(EventsOf(emailEvents, pid)) <= EmailsPageSize
                       => Len(MapGetOrEmpty(run.emailAlertsByProfile, pid))
                              = Len(NoticesOf(pid))

-----------------------------------------------------------------------------
(* Claims about the identifiers of the records                              *)

\* C26: the identifiers of the records of one output are pairwise distinct:
\* no two records of a run, whether built from signups or fallbacks, carry
\* the same id, whatever signup events the store returns.
C26_RecordIdsDistinct ==
    Succeeded =>
        \A k, l \in 1..Len(Records) : k # l => Records[k].id # Records[l].id

\* what holds instead: two records with the same id are records of signups
\* of one profile with the same product and the same signup date as texts
SameIdSameSignup ==
    Succeeded =>
        \A k, l \in 1..Len(Records) :
            (k # l /\ Records[k].id = Records[l].id) =>
                /\ Records[k].profileId = Records[l].profileId
                /\ JsString(Records[k].productId) = JsString(Records[l].productId)
                /\ JsString(Records[k].signupDate) = JsString(Records[l].signupDate)
                /\ SignupsRead(Records[k].profileId) # <<>>

-----------------------------------------------------------------------------
(* Claims about the order in which the calls of a run are answered          *)

\* the response of GET as the answers of the store alone give it: every
\* call answered at once, the message checks in the order of the profiles
Outcome ==
    IF klaviyoHeadersThrows THEN Failure("KLAVIYO_PRIVATE_API_KEY not set")
    ELSE IF getMetricIdsThrows \/ "profiles" \in unreachable THEN Failure("fetch failed")
    ELSE IF ~ProfilesResponse.ok THEN Failure("Klaviyo API error")
    ELSE LET profileList == ProfilesResponse.data
             profileIds == [i \in 1..Len(profileList) |-> profileList[i].id]
             metricIds == getMetricIds
             signupsByProfile == getSignupEvents
             alertsByProfile ==
                 MergeAlerts(getBisAlertEvents(metricIds.bisAlert),
                             checkReceivedBisEmails(metricIds.receivedEmail, profileIds,
                                                    profileIds))
         IN  IF \E i \in 1..Len(profileList) :
                    LookupThrows(profileList[i],
                                 MapGetOrEmpty(signupsByProfile, profileList[i].id))
             THEN Failure("productId.includes is not a function")
             ELSE [status |-> 200,
                   subscribers |-> Sort(BuildSubscribers(profileList, 1, signupsByProfile,
                                                         alertsByProfile)),
                   error |-> ""]

\* C27: the output of a run is determined by the answers of the store and of
\* the commerce system alone: in whatever order the calls in flight are
\* answered, the run ends with the same response, the same records in the
\* same order with the same alertSent values.
C27_OutputIndependentOfOrder == flight.pc = "done" => response = Outcome

\* two message checks were in flight together, the one of the second profile
\* was answered first, and both found a notice
C27_Witness ==
    /\ flight.pc = "done" /\ response.status = 200
    /\ flight.shared # {}
    /\ Len(flight.byProfile) = 2
    /\ flight.byProfile[1].key = flight.profileList[2].id
    /\ \E k \in 1..Len(Records) : Records[k].alertSent
    /\ \E k \in 1..Len(Records) : ~Records[k].alertSent

-----------------------------------------------------------------------------
(* The alerts of one webhook call                                           *)

\* the events of the listing, whatever their place in it
Recorded(events) == {events[i] : i \in 1..Len(events)}

\* C28: one webhook call creates at most one alert event for each distinct
\* profile it matched, however many signup events of the profile match the
\* product or the variant; the alertsSent it reports is the number of alert
\* events the store accepted and is never above subscribersFound.
C28_OneAlertPerProfile ==
    webhook.calls > 0 =>
        /\ \A i, j \in 1..Len(webhook.created) :
               webhook.created[i].profile = webhook.created[j].profile => i = j
        /\ webhook.alertsSent <= webhook.subscribersFound
        /\ webhook.alertsSent = Len(webhook.created)
        /\ Recorded(webhook.created) \subseteq Recorded(alertEvents)

\* a call that alerted a profile once for two matching signup events of it
C28_Witness ==
    /\ webhook.calls > 0 /\ webhook.status = 200
    /\ webhook.alertsSent = 1 /\ Len(webhook.created) = 1
    /\ \E a, b \in webhook.log :
           /\ a.signup # b.signup
           /\ a.alert = webhook.created[1] /\ b.alert = webhook.created[1]

-----------------------------------------------------------------------------
(* A webhook call without a product                                         *)

\* body.product_id || body.productId || body.id
GivenId(body) == OrElse(OrElse(body.product_id, body.productId), body.id)

\* body.variant_id || body.variantId
GivenVariant(body) == OrElse(body.variant_id, body.variantId)

\* the last call named no product and the lookup by variant gave none
NoProductId ==
    /\ webhook.calls > 0
    /\ ~Truthy(GivenId(webhook.body))
    /\ ~webhook.details.found

\* C29: a webhook call whose payload names no product, and for which none is
\* resolved from the variant (no variant, no shop configuration, or a lookup
\* that fails), is answered with status 400, creates no alert event and
\* asks the event store nothing.
C29_UnresolvedIsRejected ==
    NoProductId =>
        /\ webhook.status = 400
        /\ webhook.created = <<>>
        /\ webhook.requests = {}

\* such a call is answered 400 or 500, and is silent towards the event store
UnresolvedIsSilent ==
    NoProductId =>
        /\ webhook.status \in {400, 500}
        /\ webhook.created = <<>> /\ webhook.alertsSent = 0
        /\ webhook.requests = {}

\* it is answered 400 when the variant is absent or a string
UnresolvedStringIsRejected ==
    NoProductId /\ GivenVariant(webhook.body).k \in {"none", "null", "string"} =>
        webhook.status = 400

\* the lookup of a variant given as a number was answered 500
NumberVariantFailed ==
    NoProductId /\ GivenVariant(webhook.body).k = "number" /\ webhook.status = 500

\* a call without product and variant, and one whose lookup failed, got 400
AbsentVariantRejected ==
    NoProductId /\ ~Truthy(GivenVariant(webhook.body)) /\ webhook.status = 400
FailedLookupRejected ==
    NoProductId /\ Truthy(GivenVariant(webhook.body)) /\ webhook.status = 400

-----------------------------------------------------------------------------
(* The dashboard: refreshes that overlap                                    *)

\* fetchData up to its first await: the refreshes are numbered in the order
\* they start (on mount, by the interval, by "Refresh now"); nothing keeps a
\* refresh from starting while another one waits for its response
fetchData ==
    /\ phase = "setup"
    /\ EventCount < MaxEvents
    /\ dash' = [dash EXCEPT
                   !.loading = TRUE,
                   !.started = @ + 1,
                   !.running = @ \cup {[id |-> dash.started + 1, answered |-> FALSE,
                                        data |-> NoResponse]},
                   !.overlapped = @ \/ dash.running # {}]
    /\ UNCHANGED <<phase, normalizeVars, classifierVars, pipelineVars, flight>>

\* the server handles the request of a refresh: GET on the store as it is now
Serve(refresh) ==
    /\ refresh \in dash.running /\ ~refresh.answered
    /\ dash' = [dash EXCEPT
                   !.running = (@ \ {refresh})
                               \cup {[refresh EXCEPT !.answered = TRUE, !.data = Outcome]}]
    /\ UNCHANGED <<phase, normalizeVars, classifierVars, pipelineVars, flight>>

\* the state fetchData leaves when it resumes with the response data
Shown(d, data) ==
    IF data.error # ""
    THEN [d EXCEPT !.error = Str(data.error), !.loading = FALSE]
    ELSE [d EXCEPT !.subscribers = data.subscribers, !.error = NULL, !.loading = FALSE]

\* fetchData from its await on: the response of the refresh has arrived
Resume(refresh) ==
    /\ refresh \in dash.running /\ refresh.answered
    /\ dash' = [Shown(dash, refresh.data) EXCEPT
                   !.running = @ \ {refresh},
                   !.finished = Append(@, refresh)]
    /\ UNCHANGED <<phase, normalizeVars, classifierVars, pipelineVars, flight>>

DashSignups ==
    {SignupEvent(Str("p1"), Str("gid://shopify/Product/101"), NULL, Str(Iso(1))),
     SignupEvent(Str("p2"), Str("202"), NULL, Str(Iso(1)))}

InitDashboard ==
    /\ phase = "setup" /\ NormalizeIdle /\ ClassifierIdle /\ StepsIdle
    /\ profiles = <<Ann, Bob>>
    /\ signupEvents = <<>> /\ alertEvents = <<>> /\ emailEvents = <<>>
    /\ metrics = Metrics
    /\ failing = {} /\ unreachable = {} /\ env = Configured
    /\ run = NoRun /\ response = NoResponse /\ webhook = NoWebhook /\ backlog = 0

NextDashboard ==
    \/ \E event \in DashSignups : RecordSignup(event)
    \/ EndpointFails("profiles")
    \/ fetchData
    \/ \E refresh \in dash.running : Serve(refresh)
    \/ \E refresh \in dash.running : Resume(refresh)

SpecDashboard == InitDashboard /\ [][NextDashboard]_vars

\* every refresh has finished, and two of them overlapped
RefreshesOver == dash.running = {} /\ dash.started >= 2 /\ dash.overlapped

\* the response of the refresh that started last, and of the one that
\* finished last
LastStarted == (CHOOSE r \in Recorded(dash.finished) : r.id = dash.started).data
LastFinished == dash.finished[Len(dash.finished)].data

\* the list and the error on the screen are those a response leaves
Shows(data) ==
    /\ dash.subscribers = Shown(dash, data).subscribers
    /\ dash.error = Shown(dash, data).error

\* C30: when refreshes of the dashboard overlap, after all of them have
\* finished the list and the error shown are those of the refresh that was
\* started last: an earlier, slower refresh never overwrites the result of a
\* later one.
C30_LastStartedShown ==
    RefreshesOver => Shows(LastStarted)

\* what is shown is the result of the refresh that finished last
LastFinishedShown ==
    dash.finished # <<>> => Shows(LastFinished)

\* without an overlap the refresh that finished last is the one started last
InOrderWithoutOverlap ==
    dash.running = {} /\ dash.started >= 1 /\ ~dash.overlapped
        => Shows(LastStarted)

\* the first refresh was answered before a signup, the second after it; the
\* second finished first and the list of the first, without the signup, is
\* shown
StaleListShown ==
    /\ RefreshesOver
    /\ dash.finished[Len(dash.finished)].id = 1
    /\ LastStarted.error = "" /\ LastFinished.error = ""
    /\ dash.subscribers = LastFinished.subscribers
    /\ dash.subscribers # LastStarted.subscribers

====
